---- MODULE Spec2Model ----
(***************************************************************************)
(* Voiceover generation pipeline: the paragraph chunker, the sequential    *)
(* chunk-by-chunk synthesis loop with continuity threading, the retrying   *)
(* fetch wrapper, and the batch job drivers of the four batch components   *)
(* (BatchQueue, the realtime BatchProcessor, the local BatchProcessor and  *)
(* handleBatchGenerate) together with the single-script handleGenerate.    *)
(***************************************************************************)
EXTENDS Integers, Sequences, FiniteSets, TLC

(***************************************************************************)
(* Bounds of the model.                                                    *)
(***************************************************************************)
\* Jobs that can exist in one batch.
NumJobs == 2
\* Paragraphs of the longest script (with one paragraph per chunk: chunks).
MaxParagraphs == 2
\* Start-batch clicks explored.
MaxStarts == 2
\* jobs in the queue of the realtime-driven batch processor
RealtimeJobs == 1

(***************************************************************************)
(* Strings are sequences of characters; the characters that matter to the  *)
(* chunker are a letter, a space and the newline.                          *)
(***************************************************************************)
NL == "\n"
SP == " "
IsSpace(c) == c \in {NL, SP}

RECURSIVE TrimLeft(_)
TrimLeft(s) ==
    IF s = <<>> THEN s
    ELSE IF IsSpace(Head(s)) THEN TrimLeft(Tail(s)) ELSE s

RECURSIVE TrimRight(_)
TrimRight(s) ==
    IF s = <<>> THEN s
    ELSE IF IsSpace(s[Len(s)]) THEN TrimRight(SubSeq(s, 1, Len(s) - 1)) ELSE s

\* String.prototype.trim
Trim(s) == TrimRight(TrimLeft(s))

RECURSIVE SkipNL(_)
SkipNL(s) ==
    IF s = <<>> THEN s
    ELSE IF Head(s) = NL THEN SkipNL(Tail(s)) ELSE s

RECURSIVE SplitAcc(_, _, _)
SplitAcc(s, cur, acc) ==
    IF s = <<>> THEN Append(acc, cur)
    ELSE IF Head(s) = NL THEN SplitAcc(SkipNL(s), <<>>, Append(acc, cur))
    ELSE SplitAcc(Tail(s), Append(cur, Head(s)), acc)

\* text.split(/\n+/): the pieces between maximal runs of newlines
SplitNewlines(s) == SplitAcc(s, <<>>, <<>>)

\* .filter(p => p.trim() !== '')
FilterNonBlank(ps) == SelectSeq(ps, LAMBDA p : Trim(p) # <<>>)

RECURSIVE Join(_, _)
Join(ps, sep) ==
    IF ps = <<>> THEN <<>>
    ELSE IF Len(ps) = 1 THEN ps[1]
    ELSE ps[1] \o sep \o Join(Tail(ps), sep)

SliceInclusive(ps, i, j) == SubSeq(ps, i + 1, IF j + 1 < Len(ps) THEN j + 1 ELSE Len(ps))

\* Array.prototype.slice(i, j) with 0-based i, exclusive j
Slice(ps, i, j) == SubSeq(ps, i + 1, IF j < Len(ps) THEN j ELSE Len(ps))

RECURSIVE ChunksFromUpTo(_, _, _)
ChunksFromUpTo(ps, i, count) ==
    IF i > Len(ps) THEN <<>>
    ELSE <<Join(Slice(ps, i, i + count), <<NL, NL>>)>> \o ChunksFromUpTo(ps, i + count, count)

RECURSIVE ChunksFrom(_, _, _)
ChunksFrom(ps, i, count) ==
    IF i >= Len(ps) THEN <<>>
    ELSE <<Join(Slice(ps, i, i + count), <<NL, NL>>)>> \o ChunksFrom(ps, i + count, count)

splitScriptByParagraphs(text, count) ==
    IF Trim(text) = <<>> \/ count <= 0 THEN <<>>
    ELSE LET paragraphs == FilterNonBlank(SplitNewlines(text))
         IN  IF Len(paragraphs) = 0 THEN <<>> ELSE ChunksFrom(paragraphs, 0, count)


(***************************************************************************)
(* Job inputs.  MkScript(p) is a script of p non-blank paragraphs led by a *)
(* blank one; the blank-only script and a zero paragraphs-per-chunk are    *)
(* the two ways to an empty chunk list.                                    *)
(***************************************************************************)
RECURSIVE MkScript(_)
MkScript(p) == IF p = 0 THEN <<SP>> ELSE MkScript(p - 1) \o <<NL, "a">>

JobInputs ==
    {[script_content |-> <<>>, paragraphs_per_chunk |-> 1],
     [script_content |-> MkScript(0), paragraphs_per_chunk |-> 1],
     [script_content |-> MkScript(MaxParagraphs), paragraphs_per_chunk |-> 0]}
    \cup {[script_content |-> MkScript(p), paragraphs_per_chunk |-> 1] : p \in 1..MaxParagraphs}

Variants == {"BatchQueue", "StartScreen", "Part008", "Part009", "App", "Production"}
\* the components that run one script, with no job list
SingleVariants == {"App", "Production"}
TableVariants == {"BatchQueue", "StartScreen", "Part009"}

(***************************************************************************)
(* Values.                                                                 *)
(***************************************************************************)
\* previousRequestId: undefined, '' (no xi-request-id header) or a request id
Undefined == -1
EmptyId == 0
Truthy(id) == id > 0
\* no previous_request_ids field in the request body
NoLink == 0
NoProgress == [current |-> 0, total |-> 0]
NoUrl == 0
NoMessage == ""

MsgUnknown == "An unknown error occurred."
MsgUnknownBatch == "An unknown error occurred creating batch jobs."
MsgEmptyBatchQueue == "Script is empty or could not be split."
MsgEmptyScript == "Script is empty."
MsgEmptyPart008 == "Script file is empty or contains no paragraphs."
MsgEmptyApp == "Your script is empty or could not be split into paragraphs."
MsgApi == "API Error: 500. Internal error"
MsgStorage == "Storage Error: upload failed"
MsgDatabase == "Database Error: insert failed"
MsgDb == "row update failed"
MsgNotReady == "A voice and model must be selected, and you must be logged in."

\* err instanceof Error ? err.message : "An unknown error occurred."
CatchMessage(thrown) == IF thrown.isError THEN thrown.message ELSE MsgUnknown
ErrorOf(m) == [isError |-> TRUE, message |-> m]

VARIABLES
    variant,        \* the component that is mounted
    jobInput,       \* job id -> script_content, paragraphs_per_chunk
    jobs,           \* the component's job list (React state)
    jobTable,       \* the persisted batch_jobs rows, by id
    channel,        \* realtime row changes not yet delivered
    isProcessing,   \* isProcessing / hasStarted flag of the component
    drv,            \* the driver loop: where it awaits and its locals
    reqLog,         \* the synthesis requests issued since the latest Start
    serial,         \* synthesis requests issued so far (the remote's request ids)
    inflight,       \* serials of the requests awaiting their response
    runCount,       \* Sequencer runs begun so far
    starts,         \* Start-batch clicks so far
    ui,             \* single-script state: audioFiles, isLoading, error, progress
    fetcher,        \* one call of fetchWithRetry: where it awaits and its locals
    config,         \* the model and voice settings chosen, and the settings last sent
    chunker,        \* one text and count handed to splitScriptByParagraphs, and its results
    clear,          \* the clear handler in flight: where it awaits and the jobs it closed over
    reset           \* "none", or how the reset found the run: "running" or "idle"

vars == <<variant, jobInput, jobs, jobTable, channel, isProcessing, drv, reqLog,
          serial, inflight, runCount, starts, ui, fetcher, config, chunker,
          clear, reset>>

IdleDrv ==
    [pc |-> "idle", queue |-> <<>>, idx |-> 0, run |-> 0, i |-> 0, prev |-> Undefined,
     blobs |-> <<>>, thrown |-> NoMessage, msg |-> NoMessage, url |-> NoUrl]

NewJob(id) ==
    [id |-> id, status |-> "queued", progress |-> NoProgress,
     error_message |-> NoMessage, final_audio_url |-> NoUrl]
NewRow == [status |-> "queued", error_message |-> NoMessage, final_audio_url |-> NoUrl]
\* a row as the client receives it: the table has no progress column
RowToJob(id, row) ==
    [id |-> id, status |-> row.status, progress |-> NoProgress,
     error_message |-> row.error_message, final_audio_url |-> row.final_audio_url]

\* no clear handler is awaiting
NoClear == [pc |-> "idle", jobs |-> <<>>]

InitUi == [audioFiles |-> <<>>, isLoading |-> FALSE, error |-> NoMessage, progress |-> NoProgress]

InitFor(vs, maxJobs) ==
    /\ variant \in vs
    /\ \E n \in 1..maxJobs :
         /\ jobInput \in [1..n -> JobInputs]
         /\ IF variant \in SingleVariants THEN n = 1 ELSE TRUE
         /\ jobs = IF variant \in {"BatchQueue", "StartScreen", "Part008"}
                   THEN [k \in 1..n |-> NewJob(k)] ELSE <<>>
         /\ jobTable = IF variant \in {"BatchQueue", "StartScreen"}
                       THEN [k \in 1..n |-> NewRow] ELSE <<>>
    /\ channel = <<>>
    /\ isProcessing = FALSE
    /\ drv = IdleDrv
    /\ reqLog = <<>>
    /\ serial = 0
    /\ inflight = {}
    /\ runCount = 0
    /\ starts = 0
    /\ ui = InitUi
    /\ clear = NoClear
    /\ reset = "none"

\* no call of fetchWithRetry is modelled step by step in the components' runs
NoFetcher ==
    [pc |-> "none", i |-> 0, backoff |-> 0, fetches |-> 0, sleeps |-> <<>>,
     answers |-> <<>>, headers |-> <<>>, errors |-> <<>>, result |-> 0,
     error |-> NoMessage, call |-> "none", apiStatus |-> 0]

\* the components' runs leave the settings panel and the chunker's inputs aside
NoConfig == [pc |-> "none"]
NoChunker == [pc |-> "none"]

Init ==
    /\ InitFor(Variants \ {"StartScreen"}, NumJobs)
    /\ fetcher = NoFetcher
    /\ config = NoConfig
    /\ chunker = NoChunker
InitRealtime ==
    /\ InitFor({"StartScreen"}, RealtimeJobs)
    /\ fetcher = NoFetcher
    /\ config = NoConfig
    /\ chunker = NoChunker

(***************************************************************************)
(* Helpers on the job list and the request log.                            *)
(***************************************************************************)
\* prev.map(j => j.id === id ? {...j, status: st} : j)
SetStatus(list, id, st) ==
    [k \in DOMAIN list |-> IF list[k].id = id THEN [list[k] EXCEPT !.status = st] ELSE list[k]]
SetProgress(list, id, cur, tot) ==
    [k \in DOMAIN list |->
        IF list[k].id = id THEN [list[k] EXCEPT !.progress = [current |-> cur, total |-> tot]]
        ELSE list[k]]
\* prev.map(j => j.id === id ? updatedJob : j)
ReplaceJob(list, id, row) ==
    [k \in DOMAIN list |-> IF list[k].id = id THEN RowToJob(id, row) ELSE list[k]]
\* jobs.filter(j => j.status === 'queued'), as ids
QueuedIds(list) ==
    LET q == SelectSeq(list, LAMBDA j : j.status = "queued")
    IN  [k \in DOMAIN q |-> q[k].id]

TextChunks(id) ==
    splitScriptByParagraphs(jobInput[id].script_content, jobInput[id].paragraphs_per_chunk)

\* generateVoiceover up to its fetch: the body carries previous_request_ids
\* only for a truthy previousRequestId
RequestBody(text, previousRequestId) ==
    [text |-> text, link |-> IF Truthy(previousRequestId) THEN previousRequestId ELSE NoLink]

\* the fetch of one request: logged with the serial number the remote gives it
IssueRequest(log, job, run, chunkNo, text, previousRequestId) ==
    Append(log, [job |-> job, run |-> run, chunk |-> chunkNo, serial |-> serial + 1,
                 body |-> RequestBody(text, previousRequestId),
                 state |-> "pending", requestId |-> EmptyId])
\* the response to the request in flight (the last one logged)
Respond(log, st, requestId) ==
    [log EXCEPT ![Len(log)] = [@ EXCEPT !.state = st, !.requestId = requestId]]
\* response.headers.get('xi-request-id') || '' : the remote's id for the request
\* in flight, or none
ResponseIds == {EmptyId, serial}

(***************************************************************************)
(* The Sequencer's chunk loop, as every component writes it: progress for  *)
(* chunk i+1, then the request carrying previousRequestId; on the response *)
(* the blob is pushed and previousRequestId becomes the response's id.     *)
(***************************************************************************)
LastRequest == reqLog[Len(reqLog)]

\* a loop that starts the requests of all chunks before awaiting any of them
SeqBeginOnConcurrent(log, answered, id, run) ==
    LET first == IssueRequest(log, id, run, 1, TextChunks(id)[1], Undefined)
        both == IF Len(TextChunks(id)) > 1
                THEN Append(first, [first[Len(first)] EXCEPT
                                      !.chunk = 2, !.serial = serial + 2,
                                      !.body = RequestBody(TextChunks(id)[2], Undefined)])
                ELSE first
    IN  /\ reqLog' = both
        /\ serial' = serial + (Len(both) - Len(log))
        /\ inflight' = (inflight \ answered) \cup (serial + 1 .. serial + (Len(both) - Len(log)))
        /\ runCount' = run

\* first iteration: let previousRequestId = undefined; request for chunk 1.
\* `log` is the log so far and `answered` the requests answered in this turn.
SeqBeginOn(log, answered, id, run) ==
    /\ reqLog' = IssueRequest(log, id, run, 1, TextChunks(id)[1], Undefined)
    /\ serial' = serial + 1
    /\ inflight' = (inflight \ answered) \cup {serial + 1}
    /\ runCount' = run

SeqBegin(id, run) == SeqBeginOn(reqLog, {}, id, run)

\* a loop that forgets previousRequestId = requestId
NextChunkKeepsPrev(d, requestId) ==
    [d EXCEPT !.blobs = Append(@, LastRequest.serial), !.i = @ + 1]

\* the loop's locals after a response carrying requestId
NextChunk(d, requestId) ==
    [d EXCEPT !.blobs = Append(@, LastRequest.serial), !.prev = requestId, !.i = @ + 1]

\* a response arrived and the loop goes on with chunk d.i + 1
SeqContinue(d, id, chunks, requestId) ==
    /\ reqLog' = IssueRequest(Respond(reqLog, "ok", requestId), id, d.run, d.i + 1,
                              chunks[d.i + 1], d.prev)
    /\ serial' = serial + 1
    /\ inflight' = (inflight \ {LastRequest.serial}) \cup {serial + 1}

\* the last response arrived
SeqFinish(requestId) ==
    /\ reqLog' = Respond(reqLog, "ok", requestId)
    /\ inflight' = inflight \ {LastRequest.serial}
    /\ UNCHANGED serial

\* a Sequencer that tries the failed chunk once more
SeqFailRetries ==
    /\ reqLog' = Append(Respond(reqLog, "failed", EmptyId),
                        [LastRequest EXCEPT !.serial = serial + 1])
    /\ inflight' = (inflight \ {LastRequest.serial}) \cup {serial + 1}
    /\ serial' = serial + 1

\* generateVoiceover threw
SeqFail ==
    /\ reqLog' = Respond(reqLog, "failed", EmptyId)
    /\ inflight' = inflight \ {LastRequest.serial}
    /\ UNCHANGED serial

net == <<reqLog, serial, inflight>>

(***************************************************************************)
(* BatchQueue.tsx                                                          *)
(***************************************************************************)
\* head of the for-loop over queuedJobs, at position k, with job list `list`
BQ_Iterate(list, q, k) ==
    IF k > Len(q)
    THEN /\ jobs' = list
         /\ isProcessing' = FALSE
         /\ drv' = IdleDrv
    ELSE /\ jobs' = SetStatus(list, q[k], "processing")
         /\ isProcessing' = isProcessing
         /\ drv' = [IdleDrv EXCEPT !.pc = "w_processing", !.queue = q, !.idx = k]

\* the catch branch up to its await: the status write carrying the message
\* (processSingleJob's collectedBlobs are out of reach once it has thrown)
BQ_Catch(thrown) ==
    drv' = [drv EXCEPT !.pc = "w_error", !.blobs = <<>>, !.thrown = thrown.message,
                       !.msg = CatchMessage(thrown)]

BQ_startProcessing ==
    /\ variant = "BatchQueue"
    /\ ~isProcessing
    /\ QueuedIds(jobs) # <<>>
    /\ starts < MaxStarts
    /\ starts' = starts + 1
    /\ LET q == QueuedIds(jobs)
       IN  /\ jobs' = SetStatus(jobs, q[1], "processing")
           /\ drv' = [IdleDrv EXCEPT !.pc = "w_processing", !.queue = q, !.idx = 1]
    /\ isProcessing' = TRUE
    /\ reqLog' = <<>>
    /\ UNCHANGED <<clear, reset, chunker, config, fetcher, variant, jobInput, jobTable, channel, serial, inflight, runCount, ui>>

\* update({status: 'processing'}) returns; processSingleJob starts
BQ_processingWritten ==
    /\ variant = "BatchQueue"
    /\ drv.pc = "w_processing"
    /\ LET id == drv.queue[drv.idx]
           n == Len(TextChunks(id))
       IN  \/ /\ jobTable' = [jobTable EXCEPT ![id].status = "processing"]
              /\ IF n = 0
                 THEN /\ BQ_Catch(ErrorOf(MsgEmptyBatchQueue))
                      /\ runCount' = runCount + 1
                      /\ UNCHANGED <<jobs, net>>
                 ELSE /\ jobs' = SetProgress(jobs, id, 1, n)
                      /\ SeqBegin(id, runCount + 1)
                      /\ drv' = [drv EXCEPT !.pc = "synth", !.run = runCount + 1]
           \/ /\ \E isErr \in BOOLEAN : BQ_Catch([isError |-> isErr, message |-> MsgDb])
              /\ UNCHANGED <<jobTable, jobs, net, runCount>>
    /\ UNCHANGED <<clear, reset, chunker, config, fetcher, variant, jobInput, channel, isProcessing, starts, ui>>

\* generateVoiceover returns or throws
BQ_synthReturns ==
    /\ variant = "BatchQueue"
    /\ drv.pc = "synth"
    /\ LET id == drv.queue[drv.idx]
           chunks == TextChunks(id)
       IN  \/ \E rid \in ResponseIds :
                LET d == NextChunk(drv, rid)
                IN  IF d.i < Len(chunks)
                    THEN /\ jobs' = SetProgress(jobs, id, d.i + 1, Len(chunks))
                         /\ SeqContinue(d, id, chunks, rid)
                         /\ drv' = d
                    ELSE /\ SeqFinish(rid)
                         /\ drv' = [d EXCEPT !.pc = "upload"]
                         /\ UNCHANGED jobs
           \/ /\ SeqFail
              /\ BQ_Catch(ErrorOf(MsgApi))
              /\ UNCHANGED jobs
    /\ UNCHANGED <<clear, reset, chunker, config, fetcher, variant, jobInput, jobTable, channel, isProcessing, runCount, starts, ui>>

\* a loop that does not look at the upload's error
BQ_uploadReturnsUnchecked ==
    /\ variant = "BatchQueue"
    /\ drv.pc = "upload"
    /\ \E url \in {NoUrl, drv.queue[drv.idx]} :
         drv' = [drv EXCEPT !.pc = "w_completed", !.url = url]
    /\ UNCHANGED <<clear, reset, chunker, config, fetcher, variant, jobInput, jobs, jobTable, channel, isProcessing, net,
                   runCount, starts, ui>>

\* storage upload returns; getPublicUrl; update({status: 'completed'}) issued
BQ_uploadReturns ==
    /\ variant = "BatchQueue"
    /\ drv.pc = "upload"
    /\ \/ drv' = [drv EXCEPT !.pc = "w_completed", !.url = drv.queue[drv.idx]]
       \/ BQ_Catch(ErrorOf(MsgStorage))
    /\ UNCHANGED <<clear, reset, chunker, config, fetcher, variant, jobInput, jobs, jobTable, channel, isProcessing, net,
                   runCount, starts, ui>>

\* update({status: 'completed', final_audio_url}).select().single() returns
BQ_completedWritten ==
    /\ variant = "BatchQueue"
    /\ drv.pc = "w_completed"
    /\ LET id == drv.queue[drv.idx]
           row == [jobTable[id] EXCEPT !.status = "completed", !.final_audio_url = drv.url]
       IN  \/ /\ jobTable' = [jobTable EXCEPT ![id] = row]
              /\ BQ_Iterate(ReplaceJob(jobs, id, row), drv.queue, drv.idx + 1)
           \/ /\ \E isErr \in BOOLEAN : BQ_Catch([isError |-> isErr, message |-> MsgDb])
              /\ UNCHANGED <<jobTable, jobs, isProcessing>>
    /\ UNCHANGED <<clear, reset, chunker, config, fetcher, variant, jobInput, channel, net, runCount, starts, ui>>

\* update({status: 'error', error_message}).select().single() returns
BQ_errorWritten ==
    /\ variant = "BatchQueue"
    /\ drv.pc = "w_error"
    /\ LET id == drv.queue[drv.idx]
           row == [jobTable[id] EXCEPT !.status = "error", !.error_message = drv.msg]
       IN  \/ /\ jobTable' = [jobTable EXCEPT ![id] = row]
              /\ BQ_Iterate(ReplaceJob(jobs, id, row), drv.queue, drv.idx + 1)
           \/ /\ UNCHANGED jobTable
              /\ BQ_Iterate(jobs, drv.queue, drv.idx + 1)
    /\ UNCHANGED <<clear, reset, chunker, config, fetcher, variant, jobInput, channel, net, runCount, starts, ui>>

\* handleFileChange: one more .txt file is read and its row inserted
BQ_handleFileChange ==
    /\ variant = "BatchQueue"
    /\ Len(jobInput) < NumJobs
    /\ \E inp \in JobInputs :
         LET id == Len(jobInput) + 1
         IN  /\ jobInput' = Append(jobInput, inp)
             /\ jobTable' = (id :> NewRow) @@ jobTable
             /\ jobs' = Append(jobs, NewJob(id))
    /\ ui' = [ui EXCEPT !.error = NoMessage]
    /\ UNCHANGED <<clear, reset, chunker, config, fetcher, variant, channel, isProcessing, drv, net, runCount, starts>>

\* the ids of the completed jobs of a list
CompletedIds(list) == {list[k].id : k \in {i \in DOMAIN list : list[i].status = "completed"}}

\* the table after delete().in('id', ids)
DeleteRows(table, ids) == [id \in DOMAIN table \ ids |-> table[id]]

\* "Clear Completed" is clicked: the completed jobs of this render's list are
\* sent for deletion
BQ_handleClearCompleted ==
    /\ variant = "BatchQueue"
    /\ ~isProcessing
    /\ clear.pc = "idle"
    /\ CompletedIds(jobs) # {}
    /\ clear' = [pc |-> "delete", jobs |-> jobs]
    /\ UNCHANGED <<reset, chunker, config, fetcher, variant, jobInput, jobs, jobTable, channel, isProcessing, drv, net, runCount, starts, ui>>

\* the delete returns: the list becomes the clicked render's list without its
\* completed jobs
BQ_deleteReturns ==
    /\ variant = "BatchQueue"
    /\ clear.pc = "delete"
    /\ \/ /\ jobTable' = DeleteRows(jobTable, CompletedIds(clear.jobs))
          /\ jobs' = SelectSeq(clear.jobs, LAMBDA j : j.status # "completed")
          /\ UNCHANGED ui
       \/ /\ ui' = [ui EXCEPT !.error = MsgDb]
          /\ UNCHANGED <<jobs, jobTable>>
    /\ clear' = NoClear
    /\ UNCHANGED <<reset, chunker, config, fetcher, variant, jobInput, channel, isProcessing, drv, net, runCount, starts>>

BatchQueueNext ==
    \/ BQ_handleClearCompleted
    \/ BQ_deleteReturns
    \/ BQ_startProcessing
    \/ BQ_processingWritten
    \/ BQ_synthReturns
    \/ BQ_uploadReturns
    \/ BQ_completedWritten
    \/ BQ_errorWritten
    \/ BQ_handleFileChange

(***************************************************************************)
(* StartScreen.tsx, BatchProcessor: the job list follows the table only    *)
(* through the realtime subscription; the status writes are not checked.   *)
(* A row change that is never delivered is one that is delayed for ever.   *)
(***************************************************************************)
\* a row change as the subscription will deliver it (payload.new)
Publish(ch, id, row) == Append(ch, [id |-> id, row |-> row])

\* head of the for-loop over queuedJobs, at position k
SS_Iterate(q, k) ==
    IF k > Len(q)
    THEN /\ isProcessing' = FALSE
         /\ drv' = IdleDrv
    ELSE /\ isProcessing' = isProcessing
         /\ drv' = [IdleDrv EXCEPT !.pc = "w_processing", !.queue = q, !.idx = k]

SS_Catch(thrown) ==
    drv' = [drv EXCEPT !.pc = "w_error", !.blobs = <<>>, !.thrown = thrown.message,
                       !.msg = CatchMessage(thrown)]

\* the table after update(...).eq('id', id), and the change it publishes
SS_Write(id, row, ok) ==
    IF ok /\ id \in DOMAIN jobTable
    THEN /\ jobTable' = [jobTable EXCEPT ![id] = row]
         /\ channel' = Publish(channel, id, row)
    ELSE UNCHANGED <<jobTable, channel>>

SS_startProcessing ==
    /\ variant = "StartScreen"
    /\ ~isProcessing
    /\ QueuedIds(jobs) # <<>>
    /\ starts < MaxStarts
    /\ starts' = starts + 1
    /\ drv' = [IdleDrv EXCEPT !.pc = "w_processing", !.queue = QueuedIds(jobs), !.idx = 1]
    /\ isProcessing' = TRUE
    /\ reqLog' = <<>>
    /\ ui' = [ui EXCEPT !.error = NoMessage]
    /\ UNCHANGED <<clear, reset, chunker, config, fetcher, variant, jobInput, jobs, jobTable, channel, serial, inflight, runCount>>

SS_processingWritten ==
    /\ variant = "StartScreen"
    /\ drv.pc = "w_processing"
    /\ LET id == drv.queue[drv.idx]
           n == Len(TextChunks(id))
       IN  /\ \E ok \in BOOLEAN :
                SS_Write(id, [jobTable[id] EXCEPT !.status = "processing"], ok)
           /\ IF n = 0
              THEN /\ SS_Catch(ErrorOf(MsgEmptyScript))
                   /\ runCount' = runCount + 1
                   /\ UNCHANGED <<jobs, net>>
              ELSE /\ jobs' = SetProgress(jobs, id, 1, n)
                   /\ SeqBegin(id, runCount + 1)
                   /\ drv' = [drv EXCEPT !.pc = "synth", !.run = runCount + 1]
    /\ UNCHANGED <<clear, reset, chunker, config, fetcher, variant, jobInput, isProcessing, starts, ui>>

SS_synthReturns ==
    /\ variant = "StartScreen"
    /\ drv.pc = "synth"
    /\ LET id == drv.queue[drv.idx]
           chunks == TextChunks(id)
       IN  \/ \E rid \in ResponseIds :
                LET d == NextChunk(drv, rid)
                IN  IF d.i < Len(chunks)
                    THEN /\ jobs' = SetProgress(jobs, id, d.i + 1, Len(chunks))
                         /\ SeqContinue(d, id, chunks, rid)
                         /\ drv' = d
                    ELSE /\ SeqFinish(rid)
                         /\ drv' = [d EXCEPT !.pc = "upload"]
                         /\ UNCHANGED jobs
           \/ /\ SeqFail
              /\ SS_Catch(ErrorOf(MsgApi))
              /\ UNCHANGED jobs
    /\ UNCHANGED <<clear, reset, chunker, config, fetcher, variant, jobInput, jobTable, channel, isProcessing, runCount, starts, ui>>

SS_uploadReturns ==
    /\ variant = "StartScreen"
    /\ drv.pc = "upload"
    /\ \/ drv' = [drv EXCEPT !.pc = "w_completed", !.url = drv.queue[drv.idx]]
       \/ SS_Catch(ErrorOf(MsgStorage))
    /\ UNCHANGED <<clear, reset, chunker, config, fetcher, variant, jobInput, jobs, jobTable, channel, isProcessing, net,
                   runCount, starts, ui>>

SS_completedWritten ==
    /\ variant = "StartScreen"
    /\ drv.pc = "w_completed"
    /\ LET id == drv.queue[drv.idx]
       IN  \E ok \in BOOLEAN :
             SS_Write(id, [jobTable[id] EXCEPT !.status = "completed",
                                               !.final_audio_url = drv.url], ok)
    /\ SS_Iterate(drv.queue, drv.idx + 1)
    /\ UNCHANGED <<clear, reset, chunker, config, fetcher, variant, jobInput, jobs, net, runCount, starts, ui>>

SS_errorWritten ==
    /\ variant = "StartScreen"
    /\ drv.pc = "w_error"
    /\ LET id == drv.queue[drv.idx]
       IN  \E ok \in BOOLEAN :
             SS_Write(id, [jobTable[id] EXCEPT !.status = "error",
                                               !.error_message = drv.msg], ok)
    /\ SS_Iterate(drv.queue, drv.idx + 1)
    /\ UNCHANGED <<clear, reset, chunker, config, fetcher, variant, jobInput, jobs, net, runCount, starts, ui>>

\* the postgres_changes handler: replace the job with payload.new, or append it
SS_realtimeDeliver ==
    /\ variant = "StartScreen"
    /\ channel # <<>>
    /\ LET ev == Head(channel)
           jobExists == \E k \in DOMAIN jobs : jobs[k].id = ev.id
       IN  jobs' = IF jobExists THEN ReplaceJob(jobs, ev.id, ev.row)
                   ELSE Append(jobs, RowToJob(ev.id, ev.row))
    /\ channel' = Tail(channel)
    /\ UNCHANGED <<clear, reset, chunker, config, fetcher, variant, jobInput, jobTable, isProcessing, drv, net, runCount, starts, ui>>

\* the ids of all the jobs of a list
AllIds(list) == {list[k].id : k \in DOMAIN list}

\* "Clear All" is clicked and confirmed: the audio of every job of this
\* render's list is sent for removal
SS_handleClearAll ==
    /\ variant = "StartScreen"
    /\ ~isProcessing
    /\ clear.pc = "idle"
    /\ jobs # <<>>
    /\ clear' = [pc |-> "remove", jobs |-> jobs]
    /\ UNCHANGED <<reset, chunker, config, fetcher, variant, jobInput, jobs, jobTable, channel, isProcessing, drv, net, runCount, starts, ui>>

\* the storage removal returns; a failure is shown and the rows are deleted
\* all the same
SS_removeReturns ==
    /\ variant = "StartScreen"
    /\ clear.pc = "remove"
    /\ \/ UNCHANGED ui
       \/ ui' = [ui EXCEPT !.error = MsgStorage]
    /\ clear' = [clear EXCEPT !.pc = "delete"]
    /\ UNCHANGED <<reset, chunker, config, fetcher, variant, jobInput, jobs, jobTable, channel, isProcessing, drv, net, runCount, starts>>

\* the delete returns: the list is emptied
SS_deleteReturns ==
    /\ variant = "StartScreen"
    /\ clear.pc = "delete"
    /\ \/ /\ jobTable' = DeleteRows(jobTable, AllIds(clear.jobs))
          /\ jobs' = <<>>
          /\ UNCHANGED ui
       \/ /\ ui' = [ui EXCEPT !.error = MsgDb]
          /\ UNCHANGED <<jobs, jobTable>>
    /\ clear' = NoClear
    /\ UNCHANGED <<reset, chunker, config, fetcher, variant, jobInput, channel, isProcessing, drv, net, runCount, starts>>

StartScreenNext ==
    \/ SS_handleClearAll
    \/ SS_removeReturns
    \/ SS_deleteReturns
    \/ SS_startProcessing
    \/ SS_processingWritten
    \/ SS_synthReturns
    \/ SS_uploadReturns
    \/ SS_completedWritten
    \/ SS_errorWritten
    \/ SS_realtimeDeliver

(***************************************************************************)
(* The local BatchProcessor (handleStartProcessing): jobs live in React    *)
(* state only; a finished job is recorded in the history table.            *)
(***************************************************************************)
SetError(list, id, message) ==
    [k \in DOMAIN list |->
        IF list[k].id = id
        THEN [list[k] EXCEPT !.status = "error", !.error_message = message,
                             !.progress = NoProgress]
        ELSE list[k]]
\* an update that adds the job when the list does not hold it
SetCompletedOrAdd(list, id, url) ==
    IF \E k \in DOMAIN list : list[k].id = id
    THEN [k \in DOMAIN list |->
            IF list[k].id = id
            THEN [list[k] EXCEPT !.status = "completed", !.final_audio_url = url,
                                 !.progress = NoProgress]
            ELSE list[k]]
    ELSE Append(list, [NewJob(id) EXCEPT !.status = "completed", !.final_audio_url = url])

SetCompleted(list, id, url) ==
    [k \in DOMAIN list |->
        IF list[k].id = id
        THEN [list[k] EXCEPT !.status = "completed", !.final_audio_url = url,
                             !.progress = NoProgress]
        ELSE list[k]]

\* the for-loop from position k up to its next await: a job with no chunks is
\* set to processing and to error within the same turn, and the loop goes on
RECURSIVE P8_Skip(_, _, _)
P8_Skip(list, q, k) ==
    IF k > Len(q) \/ Len(TextChunks(q[k])) > 0 THEN [list |-> list, k |-> k]
    ELSE P8_Skip(SetError(SetStatus(list, q[k], "processing"), q[k],
                          CatchMessage(ErrorOf(MsgEmptyPart008))), q, k + 1)

P8_Iterate(list, q, k, failed) ==
    LET r == P8_Skip(list, q, k)
        run == runCount + (r.k - k)
        log == IF failed THEN Respond(reqLog, "failed", EmptyId) ELSE reqLog
        answered == IF failed THEN {LastRequest.serial} ELSE {}
    IN  IF r.k > Len(q)
        THEN /\ jobs' = r.list
             /\ drv' = IdleDrv
             /\ runCount' = run
             /\ reqLog' = log
             /\ inflight' = inflight \ answered
             /\ UNCHANGED serial
        ELSE LET id == q[r.k]
             IN  /\ jobs' = SetProgress(SetStatus(r.list, id, "processing"), id, 1,
                                        Len(TextChunks(id)))
                 /\ SeqBeginOn(log, answered, id, run + 1)
                 /\ drv' = [IdleDrv EXCEPT !.pc = "synth", !.queue = q, !.idx = r.k,
                                           !.run = run + 1]

\* the catch branch: no await in it, so the loop goes on in the same turn
P8_Catch(thrown, failed) ==
    P8_Iterate(SetError(jobs, drv.queue[drv.idx], CatchMessage(thrown)), drv.queue,
               drv.idx + 1, failed)

P8_handleStartProcessing ==
    /\ variant = "Part008"
    /\ ~isProcessing
    /\ isProcessing' = TRUE
    /\ starts' = starts + 1
    /\ P8_Iterate(jobs, [k \in DOMAIN jobs |-> jobs[k].id], 1, FALSE)
    /\ UNCHANGED <<clear, reset, chunker, config, fetcher, variant, jobInput, jobTable, channel, ui>>

P8_synthReturns ==
    /\ variant = "Part008"
    /\ drv.pc = "synth"
    /\ LET id == drv.queue[drv.idx]
           chunks == TextChunks(id)
       IN  \/ /\ \E rid \in ResponseIds :
                   LET d == NextChunk(drv, rid)
                   IN  IF d.i < Len(chunks)
                       THEN /\ jobs' = SetProgress(jobs, id, d.i + 1, Len(chunks))
                            /\ SeqContinue(d, id, chunks, rid)
                            /\ drv' = d
                       ELSE /\ SeqFinish(rid)
                            /\ drv' = [d EXCEPT !.pc = "upload"]
                            /\ UNCHANGED jobs
              /\ UNCHANGED runCount
           \/ P8_Catch(ErrorOf(MsgApi), TRUE)
    /\ UNCHANGED <<clear, reset, chunker, config, fetcher, variant, jobInput, jobTable, channel, isProcessing, starts, ui>>

\* storage upload returns; getPublicUrl; the history insert is issued
P8_uploadReturns ==
    /\ variant = "Part008"
    /\ drv.pc = "upload"
    /\ \/ /\ drv' = [drv EXCEPT !.pc = "insert_history", !.url = drv.queue[drv.idx]]
          /\ UNCHANGED <<jobs, net, runCount>>
       \/ P8_Catch(ErrorOf(MsgStorage), FALSE)
    /\ UNCHANGED <<clear, reset, chunker, config, fetcher, variant, jobInput, jobTable, channel, isProcessing, starts, ui>>

\* from('history').insert(newItem).select().single() returns
P8_historyInserted ==
    /\ variant = "Part008"
    /\ drv.pc = "insert_history"
    /\ \/ P8_Iterate(SetCompleted(jobs, drv.queue[drv.idx], drv.url), drv.queue,
                     drv.idx + 1, FALSE)
       \/ P8_Catch(ErrorOf(MsgDatabase), FALSE)
    /\ UNCHANGED <<clear, reset, chunker, config, fetcher, variant, jobInput, jobTable, channel, isProcessing, starts, ui>>

Part008Next ==
    \/ P8_handleStartProcessing
    \/ P8_synthReturns
    \/ P8_uploadReturns
    \/ P8_historyInserted

(***************************************************************************)
(* handleBatchGenerate: the staged files become rows and local jobs, then  *)
(* the loop sets each status locally first and writes it unchecked.        *)
(***************************************************************************)
P9_Iterate(list, q, k) ==
    IF k > Len(q)
    THEN /\ jobs' = list
         /\ drv' = IdleDrv
    ELSE /\ jobs' = SetStatus(list, q[k], "processing")
         /\ drv' = [IdleDrv EXCEPT !.pc = "w_processing", !.queue = q, !.idx = k]

\* the catch branch up to its await: local error, then the unchecked write
P9_Catch(thrown) ==
    /\ jobs' = SetError(jobs, drv.queue[drv.idx], CatchMessage(thrown))
    /\ drv' = [drv EXCEPT !.pc = "w_error", !.blobs = <<>>, !.thrown = thrown.message,
                          !.msg = CatchMessage(thrown)]

\* the click, up to the insert of the new rows
P9_handleBatchGenerate ==
    /\ variant = "Part009"
    /\ starts = 0
    /\ starts' = starts + 1
    /\ ui' = [ui EXCEPT !.isLoading = TRUE, !.error = NoMessage, !.audioFiles = <<>>]
    /\ jobs' = <<>>
    /\ drv' = [IdleDrv EXCEPT !.pc = "insert_jobs"]
    /\ UNCHANGED <<clear, reset, chunker, config, fetcher, variant, jobInput, jobTable, channel, isProcessing, net, runCount>>

\* from('batch_jobs').insert(newJobsData).select() returns
P9_jobsInserted ==
    /\ variant = "Part009"
    /\ drv.pc = "insert_jobs"
    /\ \/ /\ jobTable' = [k \in DOMAIN jobInput |-> NewRow]
          /\ ui' = [ui EXCEPT !.isLoading = FALSE]
          /\ P9_Iterate([k \in DOMAIN jobInput |-> NewJob(k)],
                        [k \in DOMAIN jobInput |-> k], 1)
       \/ /\ \E isErr \in BOOLEAN :
                ui' = [ui EXCEPT !.isLoading = FALSE,
                                 !.error = IF isErr THEN MsgDb ELSE MsgUnknownBatch]
          /\ drv' = IdleDrv
          /\ UNCHANGED <<jobTable, jobs>>
    /\ UNCHANGED <<clear, reset, chunker, config, fetcher, variant, jobInput, channel, isProcessing, net, runCount, starts>>

P9_processingWritten ==
    /\ variant = "Part009"
    /\ drv.pc = "w_processing"
    /\ LET id == drv.queue[drv.idx]
           n == Len(TextChunks(id))
       IN  /\ \E ok \in BOOLEAN :
                jobTable' = IF ok THEN [jobTable EXCEPT ![id].status = "processing"]
                            ELSE jobTable
           /\ IF n = 0
              THEN /\ P9_Catch(ErrorOf(MsgEmptyScript))
                   /\ runCount' = runCount + 1
                   /\ UNCHANGED net
              ELSE /\ jobs' = SetProgress(jobs, id, 1, n)
                   /\ SeqBegin(id, runCount + 1)
                   /\ drv' = [drv EXCEPT !.pc = "synth", !.run = runCount + 1]
    /\ UNCHANGED <<clear, reset, chunker, config, fetcher, variant, jobInput, channel, isProcessing, starts, ui>>

P9_synthReturns ==
    /\ variant = "Part009"
    /\ drv.pc = "synth"
    /\ LET id == drv.queue[drv.idx]
           chunks == TextChunks(id)
       IN  \/ \E rid \in ResponseIds :
                LET d == NextChunk(drv, rid)
                IN  IF d.i < Len(chunks)
                    THEN /\ jobs' = SetProgress(jobs, id, d.i + 1, Len(chunks))
                         /\ SeqContinue(d, id, chunks, rid)
                         /\ drv' = d
                    ELSE /\ SeqFinish(rid)
                         /\ drv' = [d EXCEPT !.pc = "upload"]
                         /\ UNCHANGED jobs
           \/ /\ SeqFail
              /\ P9_Catch(ErrorOf(MsgApi))
    /\ UNCHANGED <<clear, reset, chunker, config, fetcher, variant, jobInput, jobTable, channel, isProcessing, runCount, starts, ui>>

\* storage upload returns; on success the job is completed locally and the
\* unchecked update({status: 'completed'}) is issued
P9_uploadReturns ==
    /\ variant = "Part009"
    /\ drv.pc = "upload"
    /\ \/ /\ jobs' = SetCompleted(jobs, drv.queue[drv.idx], drv.queue[drv.idx])
          /\ drv' = [drv EXCEPT !.pc = "w_completed", !.url = drv.queue[drv.idx]]
       \/ P9_Catch(ErrorOf(MsgStorage))
    /\ UNCHANGED <<clear, reset, chunker, config, fetcher, variant, jobInput, jobTable, channel, isProcessing, net, runCount,
                   starts, ui>>

P9_completedWritten ==
    /\ variant = "Part009"
    /\ drv.pc = "w_completed"
    /\ LET id == drv.queue[drv.idx]
       IN  \E ok \in BOOLEAN :
             jobTable' = IF ok
                         THEN [jobTable EXCEPT ![id].status = "completed",
                                               ![id].final_audio_url = drv.url]
                         ELSE jobTable
    /\ P9_Iterate(jobs, drv.queue, drv.idx + 1)
    /\ UNCHANGED <<clear, reset, chunker, config, fetcher, variant, jobInput, channel, isProcessing, net, runCount, starts, ui>>

P9_errorWritten ==
    /\ variant = "Part009"
    /\ drv.pc = "w_error"
    /\ LET id == drv.queue[drv.idx]
       IN  \E ok \in BOOLEAN :
             jobTable' = IF ok
                         THEN [jobTable EXCEPT ![id].status = "error",
                                               ![id].error_message = drv.msg]
                         ELSE jobTable
    /\ P9_Iterate(jobs, drv.queue, drv.idx + 1)
    /\ UNCHANGED <<clear, reset, chunker, config, fetcher, variant, jobInput, channel, isProcessing, net, runCount, starts, ui>>

\* how a reset finds the driver: with a run in progress or not
ResetFinds == IF drv.pc = "idle" THEN "idle" ELSE "running"

\* "Start Over" on the results step, which shows it only while not loading
P9_handleResetWorkflow ==
    /\ variant = "Part009"
    /\ starts > 0
    /\ ~ui.isLoading
    /\ reset = "none"
    /\ reset' = ResetFinds
    /\ jobs' = <<>>
    /\ ui' = [ui EXCEPT !.audioFiles = <<>>, !.error = NoMessage, !.isLoading = FALSE]
    /\ UNCHANGED <<clear, chunker, config, fetcher, variant, jobInput, jobTable, channel, isProcessing, drv, net, runCount, starts>>

Part009Next ==
    \/ P9_handleResetWorkflow
    \/ P9_handleBatchGenerate
    \/ P9_jobsInserted
    \/ P9_processingWritten
    \/ P9_synthReturns
    \/ P9_uploadReturns
    \/ P9_completedWritten
    \/ P9_errorWritten

(***************************************************************************)
(* App.tsx, handleGenerate: the single-script run.  The script and the     *)
(* paragraph count are jobInput[1]; a voice and a model are selected.      *)
(***************************************************************************)
\* a finally that leaves the progress as it is
APP_FinallyKeepsProgress(u) == [u EXCEPT !.isLoading = FALSE]

\* finally { setIsLoading(false); setProgress(null) }
APP_Finally(u) == [u EXCEPT !.isLoading = FALSE, !.progress = NoProgress]

APP_handleGenerate ==
    /\ variant = "App"
    /\ starts = 0
    /\ starts' = starts + 1
    /\ LET n == Len(TextChunks(1))
           u == [ui EXCEPT !.isLoading = TRUE, !.error = NoMessage, !.audioFiles = <<>>]
       IN  IF n = 0
           THEN /\ ui' = [u EXCEPT !.error = MsgEmptyApp, !.isLoading = FALSE]
                /\ runCount' = runCount + 1
                /\ UNCHANGED <<drv, net>>
           ELSE /\ ui' = [u EXCEPT !.progress = [current |-> 1, total |-> n]]
                /\ SeqBegin(1, runCount + 1)
                /\ drv' = [IdleDrv EXCEPT !.pc = "synth", !.queue = <<1>>, !.idx = 1,
                                          !.run = runCount + 1]
    /\ UNCHANGED <<clear, reset, chunker, config, fetcher, variant, jobInput, jobs, jobTable, channel, isProcessing>>

APP_synthReturns ==
    /\ variant = "App"
    /\ drv.pc = "synth"
    /\ LET chunks == TextChunks(1)
       IN  \/ \E rid \in ResponseIds :
                LET d == NextChunk(drv, rid)
                    u == [ui EXCEPT !.audioFiles =
                              Append(@, [id |-> d.i, blob |-> LastRequest.serial])]
                IN  IF d.i < Len(chunks)
                    THEN /\ ui' = [u EXCEPT !.progress = [current |-> d.i + 1,
                                                          total |-> Len(chunks)]]
                         /\ SeqContinue(d, 1, chunks, rid)
                         /\ drv' = d
                    ELSE /\ SeqFinish(rid)
                         /\ ui' = APP_Finally(u)
                         /\ drv' = [IdleDrv EXCEPT !.blobs = d.blobs]
           \/ /\ SeqFail
              /\ ui' = APP_Finally([ui EXCEPT !.error = CatchMessage(ErrorOf(MsgApi))])
              /\ drv' = [IdleDrv EXCEPT !.blobs = drv.blobs]
    /\ UNCHANGED <<clear, reset, chunker, config, fetcher, variant, jobInput, jobs, jobTable, channel, isProcessing, runCount, starts>>

\* "Start Over" of ResultsDisplay, which shows it only while not loading
APP_handleReset ==
    /\ variant = "App"
    /\ starts > 0
    /\ ~ui.isLoading
    /\ reset = "none"
    /\ reset' = ResetFinds
    /\ ui' = [ui EXCEPT !.audioFiles = <<>>, !.error = NoMessage, !.isLoading = FALSE]
    /\ UNCHANGED <<clear, chunker, config, fetcher, variant, jobInput, jobs, jobTable, channel, isProcessing, drv, net, runCount, starts>>

AppNext ==
    \/ APP_handleReset
    \/ APP_handleGenerate
    \/ APP_synthReturns

(***************************************************************************)
(* Production.tsx, handleSingleGenerate: the single run of App, followed   *)
(* by the upload of the combined audio and the history insert, all inside  *)
(* one try with a finally.                                                 *)
(***************************************************************************)
\* catch (err) { setError(...) } finally { setIsLoading(false); setProgress(null) }
PROD_Catch(thrown) ==
    /\ ui' = APP_Finally([ui EXCEPT !.error = CatchMessage(thrown)])
    /\ drv' = [IdleDrv EXCEPT !.blobs = drv.blobs]

\* with no voice, model or user the handler only shows a message: no run starts
PROD_handleSingleGenerate ==
    /\ variant = "Production"
    /\ starts = 0
    /\ \E ready \in BOOLEAN :
         LET n == Len(TextChunks(1))
             u == [ui EXCEPT !.isLoading = TRUE, !.error = NoMessage, !.audioFiles = <<>>]
         IN  IF ~ready
             THEN /\ ui' = [ui EXCEPT !.error = MsgNotReady]
                  /\ UNCHANGED <<drv, net, runCount, starts>>
             ELSE IF n = 0
             THEN /\ ui' = [u EXCEPT !.error = MsgEmptyApp, !.isLoading = FALSE]
                  /\ runCount' = runCount + 1
                  /\ starts' = starts + 1
                  /\ UNCHANGED <<drv, net>>
             ELSE /\ ui' = [u EXCEPT !.progress = [current |-> 1, total |-> n]]
                  /\ starts' = starts + 1
                  /\ SeqBegin(1, runCount + 1)
                  /\ drv' = [IdleDrv EXCEPT !.pc = "synth", !.queue = <<1>>, !.idx = 1,
                                            !.run = runCount + 1]
    /\ UNCHANGED <<clear, reset, chunker, config, fetcher, variant, jobInput, jobs, jobTable, channel, isProcessing>>

\* generateVoiceover returns or throws; after the last chunk the combined
\* audio is sent to storage
PROD_synthReturns ==
    /\ variant = "Production"
    /\ drv.pc = "synth"
    /\ LET chunks == TextChunks(1)
       IN  \/ \E rid \in ResponseIds :
                LET d == NextChunk(drv, rid)
                    u == [ui EXCEPT !.audioFiles =
                              Append(@, [id |-> d.i, blob |-> LastRequest.serial])]
                IN  IF d.i < Len(chunks)
                    THEN /\ ui' = [u EXCEPT !.progress = [current |-> d.i + 1,
                                                          total |-> Len(chunks)]]
                         /\ SeqContinue(d, 1, chunks, rid)
                         /\ drv' = d
                    ELSE /\ SeqFinish(rid)
                         /\ ui' = u
                         /\ drv' = [d EXCEPT !.pc = "upload"]
           \/ /\ SeqFail
              /\ PROD_Catch(ErrorOf(MsgApi))
    /\ UNCHANGED <<clear, reset, chunker, config, fetcher, variant, jobInput, jobs, jobTable, channel, isProcessing, runCount, starts>>

\* storage.from('history_audio').upload returns; getPublicUrl; insert issued
PROD_uploadReturns ==
    /\ variant = "Production"
    /\ drv.pc = "upload"
    /\ \/ /\ drv' = [drv EXCEPT !.pc = "insert_history", !.url = 1]
          /\ UNCHANGED ui
       \/ PROD_Catch(ErrorOf(MsgStorage))
    /\ UNCHANGED <<clear, reset, chunker, config, fetcher, variant, jobInput, jobs, jobTable, channel, isProcessing, net, runCount, starts>>

\* from('history').insert(newItem).select().single() returns
PROD_historyInserted ==
    /\ variant = "Production"
    /\ drv.pc = "insert_history"
    /\ \/ /\ ui' = APP_Finally(ui)
          /\ drv' = [IdleDrv EXCEPT !.blobs = drv.blobs, !.url = drv.url]
       \/ PROD_Catch(ErrorOf(MsgDatabase))
    /\ UNCHANGED <<clear, reset, chunker, config, fetcher, variant, jobInput, jobs, jobTable, channel, isProcessing, net, runCount, starts>>

ProductionNext ==
    \/ PROD_handleSingleGenerate
    \/ PROD_synthReturns
    \/ PROD_uploadReturns
    \/ PROD_historyInserted

(***************************************************************************)
(* elevenLabsService.ts, fetchWithRetry(url, options, retries = 5,         *)
(* backoff = 500).  Durations are counted in 1/Unit ms, which keeps        *)
(* backoff *= 1.5 exact over the attempts.                                 *)
(***************************************************************************)
retries == 5
initialBackoff == 500
Unit == 32
\* Math.random() * 250 lies in [0, 250)
Jitters == {0, 249 * Unit}
\* the failure of fetch itself, in the log of the remote's answers
Rejected == 0
MsgNetwork == "Failed to fetch"
MsgAborted == "The operation was aborted."
\* what a rejected fetch can reject with
NetworkErrors == {MsgNetwork, MsgAborted}
MsgRetries == "Failed to fetch after multiple retries."

\* Retry-After: the header may be absent; its value is a string
Digits == <<"0", "1", "2", "3", "4", "5", "6", "7", "8", "9">>
IsDigit(c) == \E d \in DOMAIN Digits : Digits[d] = c
DigitValue(c) == (CHOOSE d \in DOMAIN Digits : Digits[d] = c) - 1
RetryAfterHeaders ==
    {[present |-> FALSE, value |-> <<>>], [present |-> TRUE, value |-> <<"0">>],
     [present |-> TRUE, value |-> <<"1">>], [present |-> TRUE, value |-> <<"2">>],
     [present |-> TRUE, value |-> <<"x">>]}
\* parseInt(str, 10) on an unsigned string: the leading digits, NaN if there are none
RECURSIVE ParseDigits(_, _)
ParseDigits(str, acc) ==
    IF str = <<>> \/ ~IsDigit(Head(str)) THEN acc
    ELSE ParseDigits(Tail(str), 10 * acc + DigitValue(Head(str)))
parseInt(str) ==
    IF str = <<>> \/ ~IsDigit(Head(str)) THEN [nan |-> TRUE, n |-> 0]
    ELSE [nan |-> FALSE, n |-> ParseDigits(str, 0)]
\* response.headers.get('Retry-After') || '0'
HeaderOrZero(h) == IF h.present /\ h.value # <<>> THEN h.value ELSE <<"0">>

\* response.headers.get('Retry-After') is null
NoHeader == [present |-> FALSE, value |-> <<>>]
Responses ==
    {[status |-> st, retryAfter |-> NoHeader] : st \in {200, 404, 500}}
    \cup {[status |-> 429, retryAfter |-> h] : h \in RetryAfterHeaders}

\* a wait that takes the Retry-After seconds for milliseconds
WaitTimeInSeconds(response, backoff, jitter) ==
    LET retryAfterSeconds == parseInt(HeaderOrZero(response.retryAfter))
    IN  IF ~retryAfterSeconds.nan /\ retryAfterSeconds.n > 0
        THEN retryAfterSeconds.n * Unit + jitter
        ELSE backoff + jitter

\* retryAfterSeconds > 0 ? retryAfterSeconds * 1000 + jitter : backoff + jitter
WaitTime(response, backoff, jitter) ==
    LET retryAfterSeconds == parseInt(HeaderOrZero(response.retryAfter))
    IN  IF ~retryAfterSeconds.nan /\ retryAfterSeconds.n > 0
        THEN retryAfterSeconds.n * 1000 * Unit + jitter
        ELSE backoff + jitter

\* a retry loop that treats every error status as a rate limit
IsRateLimitedOrError(response) == response.status >= 400
\* a retry loop that also retries on a server error
IsRateLimitedOrServerError(response) == response.status = 429 \/ response.status >= 500
IsRateLimited(response) == response.status = 429

\* await new Promise(resolve => setTimeout(resolve, waitTime)); backoff *= 1.5
Sleep(f, waitTime) ==
    [f EXCEPT !.pc = "sleep", !.sleeps = Append(@, waitTime), !.backoff = (@ * 3) \div 2]

\* the call, up to its first fetch
InitRetry ==
    /\ variant = "fetchWithRetry"
    /\ jobInput = <<>>
    /\ jobs = <<>>
    /\ jobTable = <<>>
    /\ channel = <<>>
    /\ isProcessing = FALSE
    /\ drv = IdleDrv
    /\ reqLog = <<>>
    /\ serial = 0
    /\ inflight = {}
    /\ runCount = 0
    /\ starts = 0
    /\ ui = InitUi
    /\ fetcher = [pc |-> "fetch", i |-> 0, backoff |-> initialBackoff * Unit, fetches |-> 1,
                  sleeps |-> <<>>, answers |-> <<>>, headers |-> <<>>, errors |-> <<>>,
                  result |-> 0, error |-> NoMessage, call |-> "pending", apiStatus |-> 0]
    /\ config = NoConfig
    /\ chunker = NoChunker
    /\ clear = NoClear
    /\ reset = "none"

app == <<variant, jobInput, jobs, jobTable, channel, isProcessing, drv, reqLog, serial,
         inflight, runCount, starts, ui, clear, reset>>

\* await fetch(url, options) resolves
FWR_fetchResolves ==
    /\ fetcher.pc = "fetch"
    /\ \E response \in Responses, jitter \in Jitters :
         LET f == [fetcher EXCEPT !.answers = Append(@, response.status),
                                  !.headers = Append(@, response.retryAfter),
                                  !.errors = Append(@, NoMessage)]
         IN  fetcher' = IF IsRateLimited(response)
                        THEN Sleep(f, WaitTime(response, fetcher.backoff, jitter))
                        ELSE [f EXCEPT !.pc = "returned", !.result = response.status]
    /\ UNCHANGED <<app, config, chunker>>

\* a catch branch that keeps the first error it saw and rethrows that one
FWR_fetchRejectsFirstError ==
    /\ fetcher.pc = "fetch"
    /\ \E error \in NetworkErrors :
         LET f == [fetcher EXCEPT !.answers = Append(@, Rejected),
                                  !.headers = Append(@, NoHeader),
                                  !.errors = Append(@, error)]
             seen == SelectSeq(f.errors, LAMBDA e : e # NoMessage)
         IN  fetcher' = IF fetcher.i = retries - 1
                        THEN [f EXCEPT !.pc = "threw", !.error = seen[1]]
                        ELSE Sleep(f, fetcher.backoff)
    /\ UNCHANGED <<app, config, chunker>>

\* await fetch(url, options) rejects
FWR_fetchRejects ==
    /\ fetcher.pc = "fetch"
    /\ \E error \in NetworkErrors :
         LET f == [fetcher EXCEPT !.answers = Append(@, Rejected),
                                  !.headers = Append(@, NoHeader),
                                  !.errors = Append(@, error)]
         IN  fetcher' = IF fetcher.i = retries - 1
                        THEN [f EXCEPT !.pc = "threw", !.error = error]
                        ELSE Sleep(f, fetcher.backoff)
    /\ UNCHANGED <<app, config, chunker>>

\* a loop that runs while i <= retries
FWR_sleepEndsOneMore ==
    /\ fetcher.pc = "sleep"
    /\ fetcher' = IF fetcher.i + 1 <= retries
                  THEN [fetcher EXCEPT !.pc = "fetch", !.i = @ + 1, !.fetches = @ + 1]
                  ELSE [fetcher EXCEPT !.pc = "threw", !.i = @ + 1, !.error = MsgRetries]
    /\ UNCHANGED <<app, config, chunker>>

\* the timer fires: i++, and the next fetch if i < retries
FWR_sleepEnds ==
    /\ fetcher.pc = "sleep"
    /\ fetcher' = IF fetcher.i + 1 < retries
                  THEN [fetcher EXCEPT !.pc = "fetch", !.i = @ + 1, !.fetches = @ + 1]
                  ELSE [fetcher EXCEPT !.pc = "threw", !.i = @ + 1, !.error = MsgRetries]
    /\ UNCHANGED <<app, config, chunker>>

\* response.ok
IsOk(status) == status \in 200..299

\* generateVoiceover after await fetchWithRetry(...): handleError throws
\* ApiError(message, response.status) for a response that is not ok; an
\* exception of fetchWithRetry passes through
GV_fetchWithRetrySettles ==
    /\ fetcher.call = "pending"
    /\ fetcher.pc \in {"returned", "threw"}
    /\ fetcher' = IF fetcher.pc = "threw" THEN [fetcher EXCEPT !.call = "Error"]
                  ELSE IF IsOk(fetcher.result) THEN [fetcher EXCEPT !.call = "resolved"]
                  ELSE [fetcher EXCEPT !.call = "ApiError", !.apiStatus = fetcher.result]
    /\ UNCHANGED <<app, config, chunker>>

RetryNext ==
    \/ FWR_fetchResolves
    \/ FWR_fetchRejects
    \/ FWR_sleepEnds
    \/ GV_fetchWithRetrySettles

(***************************************************************************)
(* Model capabilities and the voice settings of a synthesis request.       *)
(* A model id is a sequence of characters; settings are in hundredths      *)
(* (0.75 is 75), and an optional field that is undefined is absent from    *)
(* the settings function.                                                  *)
(***************************************************************************)
MaxFragments == 2

Fragments ==
    {<<"e", "l", "e", "v", "e", "n">>, <<"_", "v", "1">>, <<"_", "v", "2">>,
     <<"_", "v", "3">>, <<"t", "u", "r", "b", "o">>}

\* useLocalStorage('elevenlabs-model-id', 'eleven_multilingual_v2')
DefaultModelId ==
    <<"e", "l", "e", "v", "e", "n", "_", "m", "u", "l", "t", "i", "l", "i", "n", "g", "u",
      "a", "l", "_", "v", "2">>

RECURSIVE IdsOf(_)
IdsOf(n) == IF n = 0 THEN {<<>>} ELSE {f \o rest : f \in Fragments, rest \in IdsOf(n - 1)}

\* the ids of the models the remote lists
ModelIds == {DefaultModelId} \cup UNION {IdsOf(n) : n \in 1..MaxFragments}

\* String.prototype.includes
Includes(s, sub) ==
    \E k \in 0..(Len(s) - Len(sub)) : SubSeq(s, k + 1, k + Len(sub)) = sub

defaults ==
    [supportsClarity |-> TRUE, supportsStyle |-> TRUE, supportsSpeakerBoost |-> TRUE,
     stabilityType |-> "continuous"]

getModelCapabilitiesV3First(modelId) ==
    IF Includes(modelId, <<"_", "v", "1">>)
    THEN [defaults EXCEPT !.supportsStyle = FALSE, !.supportsSpeakerBoost = FALSE]
    ELSE IF Includes(modelId, <<"_", "v", "3">>)
    THEN [defaults EXCEPT !.supportsClarity = FALSE, !.supportsStyle = FALSE,
                          !.supportsSpeakerBoost = FALSE]
    ELSE IF Includes(modelId, <<"t", "u", "r", "b", "o">>)
    THEN [defaults EXCEPT !.stabilityType = "discrete"]
    ELSE defaults

getModelCapabilitiesNoV3(modelId) ==
    IF Includes(modelId, <<"_", "v", "1">>)
    THEN [defaults EXCEPT !.supportsStyle = FALSE, !.supportsSpeakerBoost = FALSE]
    ELSE IF Includes(modelId, <<"t", "u", "r", "b", "o">>)
    THEN [defaults EXCEPT !.stabilityType = "discrete"]
    ELSE defaults

getModelCapabilities(modelId) ==
    IF Includes(modelId, <<"_", "v", "1">>)
    THEN [defaults EXCEPT !.supportsStyle = FALSE, !.supportsSpeakerBoost = FALSE]
    ELSE IF Includes(modelId, <<"t", "u", "r", "b", "o">>)
    THEN [defaults EXCEPT !.stabilityType = "discrete"]
    ELSE IF Includes(modelId, <<"_", "v", "3">>)
    THEN [defaults EXCEPT !.supportsClarity = FALSE, !.supportsStyle = FALSE,
                          !.supportsSpeakerBoost = FALSE]
    ELSE defaults

\* no field
None == [x \in {} |-> 0]
Defined(settings, field) == field \in DOMAIN settings

\* useState<VoiceSettings>({stability: 0.75, similarity_boost: 0.75, style: 0.5, ...})
InitialVoiceSettings ==
    [stability |-> 75, similarity_boost |-> 75, style |-> 50, use_speaker_boost |-> TRUE,
     speed |-> 100]

\* the settings a voice of the remote, or a saved voice, may carry
LoadedSettings ==
    {[stability |-> st, similarity_boost |-> 80] @@ sy @@ sb @@ sp :
        st \in {30, 50},
        sy \in {None, "style" :> 20},
        sb \in {None, "use_speaker_boost" :> FALSE},
        sp \in {None, "speed" :> 120}}

\* creative 0.0, natural 0.5, robust 1.0
stabilityOptions == {0, 50, 100}
\* positions of an <input type="range" min="0" max="1" step="0.01">
SliderStops == {0, 30, 100}

settingsToSendCallerSpeed(capabilities, voiceSettings) ==
    [stability |-> voiceSettings.stability]
    @@ (IF Defined(voiceSettings, "speed") THEN "speed" :> voiceSettings.speed
        ELSE "speed" :> 100)
    @@ (IF capabilities.supportsClarity
        THEN "similarity_boost" :> voiceSettings.similarity_boost ELSE None)
    @@ (IF capabilities.supportsStyle /\ Defined(voiceSettings, "style")
        THEN "style" :> voiceSettings.style ELSE None)
    @@ (IF capabilities.supportsSpeakerBoost /\ Defined(voiceSettings, "use_speaker_boost")
        THEN "use_speaker_boost" :> voiceSettings.use_speaker_boost ELSE None)

\* settingsToSend as generateVoiceover leaves it in the request body
settingsToSend(capabilities, voiceSettings) ==
    [stability |-> voiceSettings.stability, speed |-> 100]
    @@ (IF capabilities.supportsClarity
        THEN "similarity_boost" :> voiceSettings.similarity_boost ELSE None)
    @@ (IF capabilities.supportsStyle /\ Defined(voiceSettings, "style")
        THEN "style" :> voiceSettings.style ELSE None)
    @@ (IF capabilities.supportsSpeakerBoost /\ Defined(voiceSettings, "use_speaker_boost")
        THEN "use_speaker_boost" :> voiceSettings.use_speaker_boost ELSE None)

\* the settings panel as App mounts it
InitConfig ==
    /\ variant = "Configurator"
    /\ jobInput = <<>>
    /\ jobs = <<>>
    /\ jobTable = <<>>
    /\ channel = <<>>
    /\ isProcessing = FALSE
    /\ drv = IdleDrv
    /\ reqLog = <<>>
    /\ serial = 0
    /\ inflight = {}
    /\ runCount = 0
    /\ starts = 0
    /\ ui = InitUi
    /\ fetcher = NoFetcher
    /\ config = [pc |-> "panel", modelId |-> DefaultModelId,
                 voiceSettings |-> InitialVoiceSettings]
    /\ chunker = NoChunker
    /\ clear = NoClear
    /\ reset = "none"

\* onClick={() => setSelectedModel(model.model_id)}
CFG_setSelectedModel ==
    /\ config.pc = "panel"
    /\ \E id \in ModelIds : config' = [config EXCEPT !.modelId = id]
    /\ UNCHANGED <<app, fetcher, chunker>>

\* setVoiceSettings({...voiceSettings, [setting]: value}) from the controls rendered
CFG_handleSettingChange ==
    /\ config.pc = "panel"
    /\ LET capabilities == getModelCapabilities(config.modelId)
           Change(setting, value) ==
               config' = [config EXCEPT !.voiceSettings = (setting :> value) @@ @]
       IN  \/ /\ capabilities.stabilityType = "discrete"
              /\ \E opt \in stabilityOptions : Change("stability", opt)
           \/ /\ capabilities.stabilityType # "discrete"
              /\ \E v \in SliderStops : Change("stability", v)
           \/ /\ capabilities.supportsClarity
              /\ \E v \in SliderStops : Change("similarity_boost", v)
           \/ /\ capabilities.supportsStyle
              /\ \E v \in SliderStops : Change("style", v)
           \/ /\ capabilities.supportsSpeakerBoost
              /\ \E checked \in BOOLEAN : Change("use_speaker_boost", checked)
    /\ UNCHANGED <<app, fetcher, chunker>>

\* if (data.settings) setVoiceSettings(data.settings); setVoiceSettings(savedVoice.settings)
CFG_loadVoiceSettings ==
    /\ config.pc = "panel"
    /\ \E settings \in LoadedSettings : config' = [config EXCEPT !.voiceSettings = settings]
    /\ UNCHANGED <<app, fetcher, chunker>>

\* generateVoiceover, up to the request body
GV_buildRequest ==
    /\ config.pc = "panel"
    /\ LET capabilities == getModelCapabilities(config.modelId)
       IN  config' = [pc |-> "sent", modelId |-> config.modelId,
                      voiceSettings |-> config.voiceSettings,
                      capabilities |-> capabilities,
                      settingsToSend |-> settingsToSend(capabilities, config.voiceSettings)]
    /\ UNCHANGED <<app, fetcher, chunker>>

ConfigNext ==
    \/ CFG_setSelectedModel
    \/ CFG_handleSettingChange
    \/ CFG_loadVoiceSettings
    \/ GV_buildRequest


(***************************************************************************)
(* The chunker on its own: every text over a small alphabet up to MaxLen   *)
(* characters, every count from -1 to MaxCount.                            *)
(***************************************************************************)
MaxLen == 6
MaxCount == 3

Alphabet == {"a", "b", SP, NL}
Texts == UNION {[1..n -> Alphabet] : n \in 0..MaxLen}
Counts == (0 - 1)..MaxCount

InitChunker ==
    /\ variant = "splitScriptByParagraphs"
    /\ jobInput = <<>>
    /\ jobs = <<>>
    /\ jobTable = <<>>
    /\ channel = <<>>
    /\ isProcessing = FALSE
    /\ drv = IdleDrv
    /\ reqLog = <<>>
    /\ serial = 0
    /\ inflight = {}
    /\ runCount = 0
    /\ starts = 0
    /\ ui = InitUi
    /\ fetcher = NoFetcher
    /\ config = NoConfig
    /\ \E text \in Texts, count \in Counts :
         chunker = [pc |-> "input", text |-> text, count |-> count,
                    chunks |-> <<>>, again |-> <<>>]
    /\ clear = NoClear
    /\ reset = "none"

\* const chunks = splitScriptByParagraphs(script, paragraphsPerChunk)
CHK_split ==
    /\ chunker.pc = "input"
    /\ chunker' = [chunker EXCEPT !.pc = "split",
                                  !.chunks = splitScriptByParagraphs(chunker.text, chunker.count)]
    /\ UNCHANGED <<app, fetcher, config>>

\* the same script and count handed to it once more
CHK_splitAgain ==
    /\ chunker.pc = "split"
    /\ chunker' = [chunker EXCEPT !.pc = "again",
                                  !.again = splitScriptByParagraphs(chunker.text, chunker.count)]
    /\ UNCHANGED <<app, fetcher, config>>

ChunkerNext == CHK_split \/ CHK_splitAgain


Next == BatchQueueNext \/ Part008Next \/ Part009Next \/ AppNext \/ ProductionNext
Spec == Init /\ [][Next]_vars

\* the batch processor that learns of status changes from the realtime channel
SpecRealtime == InitRealtime /\ [][StartScreenNext]_vars

\* one call of fetchWithRetry against a remote that answers as it likes
SpecRetry == InitRetry /\ [][RetryNext]_vars

\* a fetch settles and a timer fires, sooner or later
FairSpecRetry == SpecRetry /\ WF_vars(RetryNext)

\* the settings panel, then one call of generateVoiceover with what it holds
SpecConfig == InitConfig /\ [][ConfigNext]_vars

\* splitScriptByParagraphs on a text and a count of any kind
SpecChunker == InitChunker /\ [][ChunkerNext]_vars

\* every remote call eventually returns
RemoteReturns ==
    \/ BQ_processingWritten \/ BQ_synthReturns \/ BQ_uploadReturns
    \/ BQ_completedWritten \/ BQ_errorWritten \/ BQ_deleteReturns
    \/ P8_synthReturns \/ P8_uploadReturns \/ P8_historyInserted
    \/ P9_jobsInserted \/ P9_processingWritten \/ P9_synthReturns \/ P9_uploadReturns
    \/ P9_completedWritten \/ P9_errorWritten
    \/ APP_synthReturns
    \/ PROD_synthReturns \/ PROD_uploadReturns \/ PROD_historyInserted
FairSpec == Spec /\ WF_vars(RemoteReturns)

(***************************************************************************)
(* Properties.                                                             *)
(***************************************************************************)
Terminal == {"completed", "error"}
BatchVariants == {"BatchQueue", "StartScreen", "Part008", "Part009"}
HasStatus(list, id, S) == \E k \in DOMAIN list : list[k].id = id /\ list[k].status \in S
JobOf(list, id) == list[CHOOSE k \in DOMAIN list : list[k].id = id]
InQueue(id) == variant \in BatchVariants /\ \E k \in DOMAIN drv.queue : drv.queue[k] = id
\* the driver loop has moved on from the job at position k of its queue
MovedOn(k) == variant \in BatchVariants /\ k \in DOMAIN drv.queue /\ k < drv.idx
LegalStep(a, b) ==
    \/ a = b
    \/ a = "queued" /\ b = "processing"
    \/ a = "processing" /\ b \in Terminal

\* C1: a job's status, in the local job list and in the persisted row, only
\* changes queued -> processing, processing -> completed or processing -> error,
\* and a completed or error status never changes again.
C1_StatusTransitions ==
    [][/\ \A id \in DOMAIN jobTable \cap DOMAIN jobTable' :
            LegalStep(jobTable[id].status, jobTable'[id].status)
       /\ \A k \in DOMAIN jobs : \A m \in DOMAIN jobs' :
            jobs[k].id = jobs'[m].id => LegalStep(jobs[k].status, jobs'[m].status)]_vars

\* C2: every job that was queued when the batch started, and every job that
\* entered processing, eventually reaches completed or error, whichever remote
\* calls fail, provided every remote call eventually returns.
C2_EveryJobSettles ==
    \A id \in 1..NumJobs :
        (InQueue(id) \/ HasStatus(jobs, id, {"processing"})) ~> HasStatus(jobs, id, Terminal)

\* C3: when the driver loop moves on from a job whose run failed, the job's
\* status in the job list is error and its error message is the message of the
\* failure that was raised.
C3_FailureRecorded ==
    [][(variant \in BatchVariants /\ drv.pc = "w_error" /\ drv'.pc # "w_error")
         => LET id == drv.queue[drv.idx]
            IN  /\ HasStatus(jobs', id, {"error"})
                /\ JobOf(jobs', id).error_message = drv.thrown]_vars

\* C4: at most one job has status processing, at most one synthesis request
\* is in flight, and every job ahead of the current one in the batch has reached
\* a terminal state.
C4_StrictlySerial ==
    /\ Cardinality({k \in DOMAIN jobs : jobs[k].status = "processing"}) <= 1
    /\ Cardinality(inflight) <= 1
    /\ \A k \in DOMAIN drv.queue : MovedOn(k) => HasStatus(jobs, drv.queue[k], Terminal)

\* the token a request must carry after the response `p` to the previous chunk
LinkAfter(p) == IF Truthy(p.requestId) THEN p.requestId ELSE NoLink

C6_OneRequestAtATime ==
    /\ Cardinality(inflight) <= 1
    /\ \A k \in DOMAIN reqLog :
        LET e == reqLog[k]
        IN  /\ e.state = "pending" => (k = Len(reqLog) /\ inflight = {e.serial})
            /\ IF e.chunk = 1
               THEN \A m \in 1..(k - 1) : reqLog[m].run # e.run
               ELSE /\ k > 1
                    /\ reqLog[k - 1].run = e.run
                    /\ reqLog[k - 1].chunk = e.chunk - 1
                    /\ reqLog[k - 1].state = "ok"

\* the request for chunk 2 is awaiting its response, that for chunk 1 answered
C6_Witness ==
    /\ Len(reqLog) >= 2
    /\ reqLog[Len(reqLog)].chunk = 2
    /\ reqLog[Len(reqLog)].state = "pending"
    /\ reqLog[Len(reqLog) - 1].state = "ok"

\* C7: after the synthesis call for chunk k of a run failed, the log holds no
\* other request of that run for chunk k or a later chunk, and the run has been
\* left at once: its driver is in the catch branch with that error, or has gone
\* on to another job, and the single run shows the error until it is reset.
C7_AbortOnFailure ==
    \A k \in DOMAIN reqLog :
        reqLog[k].state = "failed" =>
            /\ \A m \in DOMAIN reqLog :
                   (m # k /\ reqLog[m].run = reqLog[k].run) => reqLog[m].chunk < reqLog[k].chunk
            /\ drv.run = reqLog[k].run => (drv.pc = "w_error" /\ drv.thrown = MsgApi)
            /\ (variant \in SingleVariants /\ reset = "none") =>
                   (ui.error = MsgApi /\ ~ui.isLoading)

\* the call for chunk 1 of a script of more chunks failed, and the loop is over
C7_Witness ==
    /\ drv.pc = "idle"
    /\ \E k \in DOMAIN reqLog :
         /\ reqLog[k].state = "failed"
         /\ reqLog[k].chunk < Len(TextChunks(reqLog[k].job))

\* the serials of the answered requests that precede the failed request k of
\* its run, in chunk order: the audio the run had produced
ProducedBefore(k) == [j \in 1..(reqLog[k].chunk - 1) |-> reqLog[k - reqLog[k].chunk + j].serial]
\* the audio of a run that its caller can still reach
Retrievable(id) ==
    IF variant \in SingleVariants THEN [j \in DOMAIN ui.audioFiles |-> ui.audioFiles[j].blob]
    ELSE IF drv.pc # "idle" /\ drv.queue[drv.idx] = id THEN drv.blobs
    ELSE <<>>

\* C8: once a run has failed at chunk k >= 2, the audio of chunks 1..k-1 is
\* still retrievable in chunk order: for the single run, and for a batch job
\* that is in error.
C8_PartialResultsRetained ==
    \A k \in DOMAIN reqLog :
        (reqLog[k].state = "failed" /\ reqLog[k].chunk >= 2
            /\ reset = "none"
            /\ (variant \in SingleVariants \/ HasStatus(jobs, reqLog[k].job, {"error"})))
        => Retrievable(reqLog[k].job) = ProducedBefore(k)

EmptyInput(id) ==
    \/ Trim(jobInput[id].script_content) = <<>>
    \/ jobInput[id].paragraphs_per_chunk <= 0
EmptyMessages == {MsgEmptyBatchQueue, MsgEmptyScript, MsgEmptyPart008, MsgEmptyApp}
\* the driver loop is done with the job
Passed(id) ==
    \/ \E k \in DOMAIN drv.queue : MovedOn(k) /\ drv.queue[k] = id
    \/ drv.pc = "idle" /\ starts > 0 /\ HasStatus(jobs, id, {"processing"} \cup Terminal)

\* C9: for a job or single run whose script is empty or blank, or whose
\* paragraphs per chunk is <= 0, no synthesis request is issued, and once the
\* driver is done with it, it is in error with an empty-input message.
C9_EmptyInputRejected ==
    \A id \in DOMAIN jobInput :
        EmptyInput(id) =>
            /\ \A k \in DOMAIN reqLog : reqLog[k].job # id
            /\ (variant \in BatchVariants /\ Passed(id)) =>
                   /\ HasStatus(jobs, id, {"error"})
                   /\ JobOf(jobs, id).error_message \in EmptyMessages
            /\ (variant \in SingleVariants /\ starts > 0 /\ reset = "none") =>
                   (ui.error = MsgEmptyApp /\ ~ui.isLoading /\ ui.audioFiles = <<>>)

\* C10: when the remote answered 429 to the first k attempts (k < retries) and
\* something else to attempt k+1, fetchWithRetry has returned that response
\* after exactly k+1 fetches and k sleeps.
C10_ReturnsAfterRateLimits ==
    \A k \in 0..(retries - 1) :
        (/\ Len(fetcher.answers) = k + 1
         /\ \A j \in 1..k : fetcher.answers[j] = 429
         /\ fetcher.answers[k + 1] \notin {429, Rejected})
        => /\ fetcher.pc = "returned"
           /\ fetcher.result = fetcher.answers[k + 1]
           /\ fetcher.fetches = k + 1
           /\ Len(fetcher.sleeps) = k

\* 429 twice, then 200: returned after three fetches and two sleeps
C10_Witness ==
    /\ fetcher.answers = <<429, 429, 200>>
    /\ fetcher.pc = "returned"
    /\ Len(fetcher.sleeps) = 2

\* the call of fetchWithRetry is over
Settled == fetcher.pc \in {"returned", "threw"}

\* C11: when all of the retries attempts were answered 429, fetchWithRetry
\* has returned the last 429 response and raised nothing.
C11_ExhaustedReturnsLast429 ==
    (/\ Settled
     /\ Len(fetcher.answers) = retries
     /\ \A j \in DOMAIN fetcher.answers : fetcher.answers[j] = 429)
    => (fetcher.pc = "returned" /\ fetcher.result = 429 /\ fetcher.error = NoMessage)

\* C12: a response whose status is not 429 is the last answer of the call:
\* fetchWithRetry has returned it, with no fetch and no sleep after it.
C12_NonRateLimitReturned ==
    \A j \in DOMAIN fetcher.answers :
        fetcher.answers[j] \notin {429, Rejected}
        => /\ j = Len(fetcher.answers)
           /\ fetcher.pc = "returned"
           /\ fetcher.result = fetcher.answers[j]
           /\ fetcher.fetches = j
           /\ Len(fetcher.sleeps) = j - 1

\* a rate limit, a network failure, then a 500 that is returned
C12_Witness ==
    /\ fetcher.answers = <<429, Rejected, 500>>
    /\ fetcher.pc = "returned"
    /\ fetcher.call = "ApiError"

\* the backoff at attempt j: 500 ms, times 1.5 for every attempt before it
BackoffAt(j) == (initialBackoff * Unit * 3 ^ (j - 1)) \div 2 ^ (j - 1)

\* C13: an attempt before the last that fails at network level is followed by
\* a sleep of the current backoff and another fetch; when the last attempt
\* fails at network level the error raised is the error of that attempt.
C13_NetworkFailure ==
    \A j \in DOMAIN fetcher.answers :
        fetcher.answers[j] = Rejected
        => IF j < retries
           THEN /\ Len(fetcher.sleeps) >= j
                /\ fetcher.sleeps[j] = BackoffAt(j)
                /\ fetcher.pc = "sleep" \/ fetcher.fetches >= j + 1
           ELSE /\ fetcher.pc = "threw"
                /\ fetcher.error = fetcher.errors[j]
                /\ Len(fetcher.sleeps) = j - 1

\* every attempt failed at network level, the last with another error than
\* the first, and the call has thrown
C13_Witness ==
    /\ fetcher.pc = "threw"
    /\ Len(fetcher.answers) = retries
    /\ \A j \in DOMAIN fetcher.answers : fetcher.answers[j] = Rejected
    /\ fetcher.errors[1] # fetcher.errors[retries]
    /\ Len(fetcher.sleeps) = retries - 1

\* C14: a synthesize call whose last remote answer is a response that is not
\* a success has failed with an ApiError carrying the status of that response.
C14_NonSuccessIsApiError ==
    (/\ fetcher.call \notin {"none", "pending"}
     /\ fetcher.answers[Len(fetcher.answers)] # Rejected
     /\ ~IsOk(fetcher.answers[Len(fetcher.answers)]))
    => /\ fetcher.call = "ApiError"
       /\ fetcher.apiStatus = fetcher.answers[Len(fetcher.answers)]


(***************************************************************************)
(* Capabilities and outgoing voice settings (SpecConfig).                  *)
(***************************************************************************)
Sent == config.pc = "sent"
IsV1(id) == Includes(id, <<"_", "v", "1">>)
IsTurbo(id) == Includes(id, <<"t", "u", "r", "b", "o">>)
IsV3(id) == Includes(id, <<"_", "v", "3">>)
Caps(clarity, style, boost, stability) ==
    [supportsClarity |-> clarity, supportsStyle |-> style, supportsSpeakerBoost |-> boost,
     stabilityType |-> stability]
OptionalSent == DOMAIN config.settingsToSend \cap {"similarity_boost", "style", "use_speaker_boost"}

\* C15: the capability set a request is built with is that of the first rule
\* its model id matches, in the order v1, turbo, v3, default: v1 gives clarity
\* only and continuous stability, turbo all three and discrete stability, v3
\* none of the three and continuous stability, any other id all three and
\* continuous stability.
C15_FirstMatchingRule ==
    Sent =>
        LET id == config.modelId
        IN  config.capabilities =
                CASE IsV1(id) -> Caps(TRUE, FALSE, FALSE, "continuous")
                  [] ~IsV1(id) /\ IsTurbo(id) -> Caps(TRUE, TRUE, TRUE, "discrete")
                  [] ~IsV1(id) /\ ~IsTurbo(id) /\ IsV3(id) ->
                        Caps(FALSE, FALSE, FALSE, "continuous")
                  [] OTHER -> Caps(TRUE, TRUE, TRUE, "continuous")

\* a request was built for an id that matches both the turbo and the v3 rule
C15_Witness ==
    /\ Sent
    /\ IsTurbo(config.modelId) /\ IsV3(config.modelId) /\ ~IsV1(config.modelId)
    /\ config.capabilities.stabilityType = "discrete"

\* C16: the settings of the outgoing request hold clarity, style or speaker
\* boost only if the model's capability set supports that field, and their
\* speed is 1.0 whatever speed the caller's settings hold.
C16_OnlySupportedFieldsSent ==
    Sent =>
        /\ Defined(config.settingsToSend, "similarity_boost") => config.capabilities.supportsClarity
        /\ Defined(config.settingsToSend, "style") => config.capabilities.supportsStyle
        /\ Defined(config.settingsToSend, "use_speaker_boost")
               => config.capabilities.supportsSpeakerBoost
        /\ Defined(config.settingsToSend, "speed") /\ config.settingsToSend.speed = 100

\* the caller's settings hold a style, a speaker boost and a speed other than
\* 1.0, and the request built for a model without style leaves the style out
C16_Witness ==
    /\ Sent
    /\ Defined(config.voiceSettings, "style")
    /\ Defined(config.voiceSettings, "use_speaker_boost")
    /\ Defined(config.voiceSettings, "speed") /\ config.voiceSettings.speed # 100
    /\ ~config.capabilities.supportsStyle
    /\ ~Defined(config.settingsToSend, "style")
    /\ config.settingsToSend.speed = 100

\* C17 as stated: for every model id that contains "_v3", whatever else it
\* contains, the outgoing request holds none of similarity_boost, style and
\* use_speaker_boost.
C17_V3SendsOnlyStability ==
    Sent /\ IsV3(config.modelId) => OptionalSent = {}

\* C17 as amended: for every model id that contains "_v3" and neither "_v1"
\* nor "turbo", the outgoing request holds none of similarity_boost, style and
\* use_speaker_boost.
C17_V3AloneSendsOnlyStability ==
    Sent /\ IsV3(config.modelId) /\ ~IsV1(config.modelId) /\ ~IsTurbo(config.modelId)
        => OptionalSent = {}

\* a request for such an id whose caller's settings hold all the optional fields
C17_Witness ==
    /\ Sent
    /\ IsV3(config.modelId) /\ ~IsV1(config.modelId) /\ ~IsTurbo(config.modelId)
    /\ {"similarity_boost", "style", "use_speaker_boost"} \subseteq DOMAIN config.voiceSettings
    /\ DOMAIN config.settingsToSend = {"stability", "speed"}

\* C18: a request for a model with discrete stability carries one of the
\* three stability presets 0.0, 0.5, 1.0.
C18_DiscreteStabilityIsPreset ==
    Sent /\ config.capabilities.stabilityType = "discrete"
        => config.settingsToSend.stability \in stabilityOptions


(***************************************************************************)
(* The chunker (SpecChunker).  ParagraphsOf states what the paragraphs of  *)
(* a text are without the chunker's operators: the maximal runs without a  *)
(* newline that hold a character other than white space, in text order.    *)
(***************************************************************************)
LineStarts(text) ==
    {i \in 1..Len(text) : text[i] # NL /\ (i = 1 \/ text[i - 1] = NL)}
LineEnd(text, i) ==
    CHOOSE j \in i..Len(text) :
        /\ \A k \in i..j : text[k] # NL
        /\ j = Len(text) \/ text[j + 1] = NL
LineAt(text, i) == SubSeq(text, i, LineEnd(text, i))
NonBlank(p) == \E k \in 1..Len(p) : ~IsSpace(p[k])
ParagraphsOf(text) ==
    LET from == {i \in LineStarts(text) : NonBlank(LineAt(text, i))}
        Kth(k) == CHOOSE i \in from : Cardinality({j \in from : j < i}) = k - 1
    IN  [k \in 1..Cardinality(from) |-> LineAt(text, Kth(k))]

\* chunk.split('\n\n')
RECURSIVE SplitOnBlankLine(_)
SplitOnBlankLine(s) ==
    LET at == {k \in 1..(Len(s) - 1) : s[k] = NL /\ s[k + 1] = NL}
    IN  IF at = {} THEN <<s>>
        ELSE LET k == CHOOSE x \in at : \A y \in at : x <= y
             IN  <<SubSeq(s, 1, k - 1)>> \o SplitOnBlankLine(SubSeq(s, k + 2, Len(s)))

RECURSIVE PiecesOf(_)
PiecesOf(chunks) ==
    IF chunks = <<>> THEN <<>> ELSE SplitOnBlankLine(Head(chunks)) \o PiecesOf(Tail(chunks))

\* C19: for a positive count, a second call on the same text and count gives
\* the same chunks, and the chunks, each split on the blank line and the
\* pieces taken in chunk order, are exactly the non-blank paragraphs of the
\* text in their order.
C19_ChunksKeepParagraphs ==
    chunker.pc = "again" /\ chunker.count > 0 =>
        /\ chunker.again = chunker.chunks
        /\ PiecesOf(chunker.chunks) = ParagraphsOf(chunker.text)

\* three paragraphs, not all alike, came back as two chunks
C19_Witness ==
    /\ chunker.pc = "again"
    /\ chunker.count = 2
    /\ Len(chunker.chunks) = 2
    /\ Len(PiecesOf(chunker.chunks)) = 3
    /\ \E k \in 1..3 : PiecesOf(chunker.chunks)[k] # PiecesOf(chunker.chunks)[1]

\* C20: with n the number of non-blank paragraphs of the text and c the
\* count, the result is empty exactly when n = 0 or c <= 0; otherwise it has
\* ceil(n/c) chunks, each but the last of c paragraphs, the last of 1 to c,
\* and none of them empty.
C20_ChunkCountAndSizes ==
    chunker.pc \in {"split", "again"} =>
        LET n == Len(ParagraphsOf(chunker.text))
            c == chunker.count
            chunks == chunker.chunks
            Size(k) == Len(SplitOnBlankLine(chunks[k]))
        IN  /\ chunks = <<>> <=> (n = 0 \/ c <= 0)
            /\ ~(n = 0 \/ c <= 0) =>
                 /\ Len(chunks) = (n + c - 1) \div c
                 /\ \A k \in 1..(Len(chunks) - 1) : Size(k) = c
                 /\ Size(Len(chunks)) \in 1..c
                 /\ \A k \in 1..Len(chunks) : chunks[k] # <<>>

\* three paragraphs split two by two: the last chunk is shorter than the count
C20_Witness ==
    /\ chunker.pc = "split"
    /\ chunker.count = 2
    /\ Len(ParagraphsOf(chunker.text)) = 3
    /\ Len(chunker.chunks) = 2
    /\ Len(SplitOnBlankLine(chunker.chunks[2])) = 1


(***************************************************************************)
(* The retry schedule (SpecRetry, FairSpecRetry).                          *)
(***************************************************************************)
\* the Retry-After duration of the j-th answer in 1/Unit ms, 0 when the
\* header is absent, zero or not a number
RetryAfterOf(j) ==
    CASE fetcher.headers[j].value = <<"1">> -> 1000 * Unit
      [] fetcher.headers[j].value = <<"2">> -> 2000 * Unit
      [] OTHER -> 0
\* the j-th sleep without its jitter, as the claim has it
ScheduledWait(j) == IF RetryAfterOf(j) > 0 THEN RetryAfterOf(j) ELSE BackoffAt(j)
JitterOk(j) == fetcher.sleeps[j] - ScheduledWait(j) \in 0..(250 * Unit - 1)
\* the j-th sleep without its jitter, as the call made it
SleptFor(j) == IF fetcher.answers[j] = 429 THEN ScheduledWait(j) ELSE fetcher.sleeps[j]
WaitsAsScheduled ==
    /\ \A j \in DOMAIN fetcher.sleeps : fetcher.answers[j] = 429 => JitterOk(j)
    /\ fetcher.pc # "none" => fetcher.backoff = BackoffAt(Len(fetcher.sleeps) + 1)

\* C25 as stated: the wait after a 429 is the Retry-After duration when it is
\* supplied and positive, else the current backoff, plus a jitter below 250
\* ms; the backoff starts at 500 ms and grows by 1.5 with every sleep; and
\* every sleep, jitter aside, is at least the backoff of the sleep before it.
C25_WaitSchedule ==
    /\ WaitsAsScheduled
    /\ \A j \in DOMAIN fetcher.sleeps : j > 1 => SleptFor(j) >= BackoffAt(j - 1)

\* C25 as amended: the same, and every sleep that is not a supplied
\* Retry-After duration is, jitter aside, at least the backoff of the sleep
\* before it.
C25_WaitScheduleUnlessRetryAfter ==
    /\ WaitsAsScheduled
    /\ \A j \in DOMAIN fetcher.sleeps :
         (j > 1 /\ RetryAfterOf(j) = 0) => SleptFor(j) >= BackoffAt(j - 1)

\* a sleep of the backoff, a sleep of two Retry-After seconds, a sleep after
\* a network failure and a sleep of the backoff again
C25_Witness ==
    /\ Len(fetcher.sleeps) = 4
    /\ fetcher.answers = <<429, 429, Rejected, 429>>
    /\ RetryAfterOf(1) = 0 /\ RetryAfterOf(2) = 2000 * Unit /\ RetryAfterOf(4) = 0
    /\ fetcher.sleeps[4] > BackoffAt(4)

\* C26: a call makes at most retries fetches and at most retries sleeps, and
\* it ends, by returning a response or by raising an error.
C26_BoundedAndTerminates ==
    /\ [](fetcher.fetches <= retries /\ Len(fetcher.sleeps) <= retries)
    /\ <>Settled

\* rate limits and network failures mixed over all the attempts, ended by the
\* error raised after the loop
C26_Witness ==
    /\ fetcher.pc = "threw"
    /\ fetcher.answers = <<429, Rejected, 429, Rejected, 429>>
    /\ fetcher.fetches = retries
    /\ Len(fetcher.sleeps) = retries

\* a clear handler's delete has just returned
ClearReturns == clear.pc = "delete" /\ clear'.pc = "idle"

\* the job of the list `list` was in a terminal state, or is still in `after`
KeptUnlessTerminal(list, after) ==
    \A k \in DOMAIN list :
        list[k].status \notin Terminal => \E m \in DOMAIN after : after[m].id = list[k].id

\* C21: a clear operation deletes only jobs that are completed or error at the
\* moment of deletion: the rows it removes from the table are terminal, and a
\* job that is queued or processing in the local list stays in the list.
C21_ClearOnlyTerminal ==
    [][ClearReturns =>
         /\ \A id \in DOMAIN jobTable \ DOMAIN jobTable' : jobTable[id].status \in Terminal
         /\ KeptUnlessTerminal(jobs, jobs')]_vars

\* C27: no job is synthesized twice: a driver loop that starts picks up only
\* jobs whose row is still queued, never one that is already processing,
\* completed or error, whatever the realtime channel delivered or withheld.
C27_PicksOnlyQueuedRows ==
    [][starts' = starts + 1 =>
         \A k \in DOMAIN drv'.queue :
             drv'.queue[k] \in DOMAIN jobTable => jobTable[drv'.queue[k]].status = "queued"]_vars

\* C28: when handleClearCompleted finishes, the local list is the list of that
\* moment without the jobs whose rows it deleted: a job enqueued while the
\* delete was in flight is still there, and a failed delete changes nothing.
C28_ClearRemovesExactlyDeleted ==
    [][ClearReturns =>
         jobs' = SelectSeq(jobs, LAMBDA j : j.id \in DOMAIN jobTable')]_vars

\* the driver loop of a component that keeps its jobs in batch_jobs ran and is
\* over
LoopFinished == variant \in TableVariants /\ starts > 0 /\ drv.pc = "idle"

\* C29: once the driver loop has finished, every job the local list shows as
\* completed or error has that same status in its batch_jobs row, also when
\* a status write failed.
C29_LocalAgreesWithTable ==
    LoopFinished =>
        \A k \in DOMAIN jobs :
            jobs[k].status \in Terminal =>
                /\ jobs[k].id \in DOMAIN jobTable
                /\ jobTable[jobs[k].id].status = jobs[k].status

\* the ids the list or the table shows as completed
CompletedLocally(list) == CompletedIds(list)
CompletedInTable(table) == {id \in DOMAIN table : table[id].status = "completed"}

\* the requests of the driver's current Sequencer run
RunRequests == SelectSeq(reqLog, LAMBDA r : r.run = drv.run)

\* the public URL of the stored audio: the one the loop holds, or the one the
\* upload returning in this step gives it
StoredUrl == IF drv.pc = "upload" THEN drv'.url ELSE drv.url

\* the current run synthesized every chunk of job id, one after the other and
\* each with success, the loop holds their audio in that order, and the
\* combined audio was stored
SynthesizedAndStored(id) ==
    /\ drv.queue[drv.idx] = id
    /\ Len(RunRequests) = Len(TextChunks(id))
    /\ Len(drv.blobs) = Len(TextChunks(id))
    /\ \A c \in DOMAIN RunRequests :
         /\ RunRequests[c].job = id
         /\ RunRequests[c].chunk = c
         /\ RunRequests[c].state = "ok"
         /\ RunRequests[c].body.text = TextChunks(id)[c]
         /\ drv.blobs[c] = RunRequests[c].serial
    /\ StoredUrl # NoUrl

\* C23: every completed job carries a non-empty reference to its combined
\* audio, and a job becomes completed, in the list or in the table, only when
\* all its chunks were synthesized in order, combined and stored, the
\* reference recorded being that of the stored audio.
C23_CompletedHasArtifact ==
    /\ [](\A k \in DOMAIN jobs : jobs[k].status = "completed" => jobs[k].final_audio_url # NoUrl)
    /\ [](\A id \in CompletedInTable(jobTable) : jobTable[id].final_audio_url # NoUrl)
    /\ [][\A id \in CompletedLocally(jobs') \ CompletedLocally(jobs) :
            SynthesizedAndStored(id) /\ JobOf(jobs', id).final_audio_url = StoredUrl]_vars
    /\ [][\A id \in CompletedInTable(jobTable') \ CompletedInTable(jobTable) :
            SynthesizedAndStored(id) /\ jobTable'[id].final_audio_url = StoredUrl]_vars

\* a job of two chunks is completed in the list and in the table
C23_Witness ==
    /\ variant = "BatchQueue"
    /\ \E k \in DOMAIN jobs :
         /\ jobs[k].status = "completed"
         /\ Len(TextChunks(jobs[k].id)) = 2
         /\ jobs[k].id \in CompletedInTable(jobTable)
         /\ jobTable[jobs[k].id].final_audio_url = jobs[k].final_audio_url

\* the progress of a job is set
HasProgress(j) == j.progress # NoProgress

\* the progress events of job id from one state to the next: the job's progress
\* is set to a new value
ProgressEvent(id) ==
    /\ \E k \in DOMAIN jobs : jobs[k].id = id
    /\ \E k \in DOMAIN jobs' : jobs'[k].id = id
    /\ HasProgress(JobOf(jobs', id))
    /\ JobOf(jobs', id).progress # JobOf(jobs, id).progress

\* C24: a job that is queued, completed or error has no progress; a progress
\* that is set has 1 <= current <= total with total the job's chunk count and
\* current the index of the chunk whose request is being issued; and current
\* grows by exactly 1 from one progress event to the next.
C24_ProgressOnlyWhileProcessing ==
    /\ [](\A k \in DOMAIN jobs :
            /\ jobs[k].status # "processing" => ~HasProgress(jobs[k])
            /\ HasProgress(jobs[k]) =>
                 /\ jobs[k].progress.current \in 1..jobs[k].progress.total
                 /\ jobs[k].progress.total = Len(TextChunks(jobs[k].id)))
    /\ [][\A id \in DOMAIN jobInput :
            ProgressEvent(id) =>
                /\ LastRequest'.job = id
                /\ LastRequest'.state = "pending"
                /\ JobOf(jobs', id).progress.current = LastRequest'.chunk
                /\ JobOf(jobs', id).progress.current =
                     IF HasProgress(JobOf(jobs, id))
                     THEN JobOf(jobs, id).progress.current + 1 ELSE 1]_vars

\* C22: after a reset invoked while a run is in progress, no later progress
\* event or chunk result of that run changes the audio list, the progress,
\* the error, the loading flag or the job list.
C22_ResetStaysDiscarded ==
    [][(reset = "running" /\ reset' = "running") => UNCHANGED <<ui, jobs>>]_vars

\* the batch was reset while its loop was running, and the loop then went on
\* to its end: both rows were written as completed and the list is empty
C22_Witness ==
    /\ variant = "Part009"
    /\ reset = "running"
    /\ drv.pc = "idle"
    /\ jobs = <<>>
    /\ ui = InitUi
    /\ DOMAIN jobTable = 1..NumJobs
    /\ \A id \in DOMAIN jobTable : jobTable[id].status = "completed"
    /\ Len(reqLog) > 0

\* a single-script generation was started and has ended
SingleRunEnded == variant \in SingleVariants /\ starts > 0 /\ drv.pc = "idle"

\* C30: when a single-script generation has ended, by whatever path, the
\* loading flag is false and the progress is null; and when a batch driver
\* loop has ended its isProcessing flag is false.
C30_NeverLeftBusy ==
    /\ SingleRunEnded => (~ui.isLoading /\ ui.progress = NoProgress)
    /\ (variant = "BatchQueue" /\ starts > 0 /\ drv.pc = "idle") => ~isProcessing

\* a run of two chunks that ended with the failure of the history insert
C30_Witness ==
    /\ variant = "Production"
    /\ SingleRunEnded
    /\ ui.error = MsgDatabase
    /\ Len(ui.audioFiles) = 2

====
